---- MODULE Spec2Model ----
(***************************************************************************)
(* Model of the stress-test system: the StressOrchestrator scenario engine *)
(* (stress_orchestrator.py) with the CPU and memory load generators it     *)
(* owns (cpu_stress.py, memory_stress.py), the StressTestNode that drives  *)
(* the same generators on command (stress_node.py), and the                *)
(* sustainable-rate search of the ThroughputTester (throughput_tester.py). *)
(*                                                                         *)
(* Time is an integer count of units of 2.5 s (half a monitor period), so  *)
(* that a request can fall on a monitor tick or between two ticks.         *)
(* Floating-point fractions are scaled to integers: intensities and loss   *)
(* rates are percentages, memory sizes are MiB.                            *)
(***************************************************************************)
EXTENDS Integers, Sequences, FiniteSets, TLC

----------------------------------------------------------------------------
(* Bounds of the model *)

\* the clock stops advancing at MaxTime
MaxTime == 56
\* start requests that get past the two rejections of start_scenario
MaxStarts == 2
\* a scenario is started again before the clock reaches RestartWindow, and
\* followed until then
RestartWindow == 3
\* time units the clock may advance while nothing is running
MaxIdle == 1
\* time units a phase transition (stopping and starting generators) may take
MaxHandlerDelay == 1
\* commands sent to the StressTestNode, or to the ThroughputTester
MaxCommands == 3

\* changes a parameter client makes to the MessageStressPublisher
MaxParameterSets == 1
----------------------------------------------------------------------------
(* Program constants *)

\* status_interval = 5.0 s, the period of the progress monitor
StatusInterval == 2
\* a duration given in seconds, in time units
Secs(s) == (s * StatusInterval) \div 5

NoScenario == "None"
NoTime == -1

\* dict.get(key, default)
Get(parameters, key, default) ==
    IF key \in DOMAIN parameters THEN parameters[key] ELSE default

Phase(name, duration, parameters) ==
    [name |-> name, duration |-> Secs(duration), parameters |-> parameters]

TestScenario(phases, total_duration, cpu, memory, message, throughput) ==
    [phases |-> phases, total_duration |-> Secs(total_duration),
     requires_cpu_stress |-> cpu, requires_memory_stress |-> memory,
     requires_message_stress |-> message, requires_throughput_stress |-> throughput]

\* the built-in catalogue: cpu_intensity in percent; memory_usage in MiB (the
\* catalogue gives it in bytes)
scenarios ==
    [pure_baseline |-> TestScenario(
        <<Phase("system_baseline", 180, [baseline_only |-> TRUE, auto_save |-> TRUE])>>,
        180, FALSE, FALSE, FALSE, FALSE),
     light_baseline |-> TestScenario(
        <<Phase("ros2_baseline", 120, [message_rate |-> 1, payload_size |-> 512,
                                       cpu_intensity |-> 0, memory_usage |-> 0])>>,
        120, FALSE, FALSE, TRUE, FALSE),
     high_throughput |-> TestScenario(
        <<Phase("ramp_up", 30, [message_rate |-> 100, payload_size |-> 1024]),
          Phase("high_rate", 60, [message_rate |-> 1000, payload_size |-> 1024]),
          Phase("burst_test", 30, [message_rate |-> 5000, payload_size |-> 1024,
                                   burst_mode |-> TRUE])>>,
        120, FALSE, FALSE, TRUE, FALSE),
     sensor_messages |-> TestScenario(
        <<Phase("image_stress", 45, [message_rate |-> 30]),
          Phase("pointcloud_stress", 45, [message_rate |-> 10]),
          Phase("laserscan_stress", 30, [message_rate |-> 40])>>,
        120, FALSE, FALSE, TRUE, FALSE),
     large_payload |-> TestScenario(
        <<Phase("small_messages", 30, [message_rate |-> 50, payload_size |-> 1024]),
          Phase("medium_messages", 30, [message_rate |-> 25, payload_size |-> 102400]),
          Phase("large_messages", 60, [message_rate |-> 5, payload_size |-> 1048576])>>,
        120, FALSE, FALSE, TRUE, FALSE),
     dynamic_types |-> TestScenario(
        <<Phase("dynamic_switching", 120, [message_rate |-> 20, payload_size |-> 4096])>>,
        120, FALSE, FALSE, TRUE, FALSE),
     cpu_stress |-> TestScenario(
        <<Phase("light_cpu", 30, [cpu_intensity |-> 25, message_rate |-> 10,
                                  payload_size |-> 1024]),
          Phase("medium_cpu", 30, [cpu_intensity |-> 50, message_rate |-> 10,
                                   payload_size |-> 1024]),
          Phase("high_cpu", 60, [cpu_intensity |-> 80, message_rate |-> 10,
                                 payload_size |-> 1024])>>,
        120, TRUE, FALSE, TRUE, FALSE),
     memory_stress |-> TestScenario(
        <<Phase("small_memory", 30, [memory_usage |-> 512, message_rate |-> 10,
                                     payload_size |-> 1024]),
          Phase("large_memory", 60, [memory_usage |-> 2048, message_rate |-> 10,
                                     payload_size |-> 1024])>>,
        90, FALSE, TRUE, TRUE, FALSE),
     system_overload |-> TestScenario(
        <<Phase("baseline_combined", 30, [cpu_intensity |-> 10, memory_usage |-> 256,
                                          message_rate |-> 50, payload_size |-> 1024]),
          Phase("moderate_combined", 60, [cpu_intensity |-> 50, memory_usage |-> 1024,
                                          message_rate |-> 500, payload_size |-> 4096]),
          Phase("extreme_combined", 30, [cpu_intensity |-> 80, memory_usage |-> 2048,
                                         message_rate |-> 1000, payload_size |-> 8192])>>,
        120, TRUE, TRUE, TRUE, FALSE),
     throughput_progression |-> TestScenario(
        <<Phase("frequency_test", 60, [throughput_test |-> "frequency_progression"])>>,
        60, FALSE, FALSE, FALSE, TRUE),
     sustainable_rate |-> TestScenario(
        <<Phase("rate_discovery", 120, [throughput_test |-> "sustainable_rate"])>>,
        120, FALSE, FALSE, FALSE, TRUE),
     queue_overflow |-> TestScenario(
        <<Phase("overflow_test", 60, [throughput_test |-> "queue_overflow"])>>,
        60, FALSE, FALSE, FALSE, TRUE),
     burst_patterns |-> TestScenario(
        <<Phase("burst_test", 90, [throughput_test |-> "burst_pattern"])>>,
        90, FALSE, FALSE, FALSE, TRUE),
     cpu_throughput_matrix |-> TestScenario(
        <<Phase("cpu_load_test", 120, [throughput_test |-> "cpu_load_throughput"])>>,
        120, TRUE, FALSE, FALSE, TRUE)]

ScenarioNames == DOMAIN scenarios

\* the declared default of the default_scenario parameter: not a catalogue name
UnknownScenario == "baseline"

----------------------------------------------------------------------------
(* Load generators: CPUStressTester and MemoryStressTester.  A generator is *)
(* a record; timers holds the expiry times of the threading.Timer objects   *)
(* armed by start_stress_test(duration) and not yet fired.  An operation    *)
(* returns [g: the generator after the call, ret: the value returned,       *)
(* raised: whether an exception left the call].                             *)

\* CPUStressTester(): a fresh instance
CPUStressTester == [is_running |-> FALSE, intensity |-> 0, timers |-> {}]

\* MemoryStressTester(): a fresh instance
MemoryStressTester == [is_running |-> FALSE, target_mb |-> 0, timers |-> {}]

\* spawn_ok: whether multiprocessing.Process.start() succeeds for the workers;
\* duration 0 stands for None (no timer is armed for a falsy duration)
CPUStressTester_start_stress_test(g, intensity, duration, t, spawn_ok) ==
    IF g.is_running THEN [g |-> g, ret |-> FALSE, raised |-> FALSE]
    ELSE IF ~(0 <= intensity /\ intensity <= 100)
    THEN [g |-> g, ret |-> FALSE, raised |-> TRUE]
    ELSE IF ~spawn_ok
    THEN [g |-> [g EXCEPT !.is_running = TRUE, !.intensity = intensity],
          ret |-> FALSE, raised |-> TRUE]
    ELSE [g |-> [g EXCEPT !.is_running = TRUE, !.intensity = intensity,
                          !.timers = IF duration # 0 THEN @ \cup {t + duration} ELSE @],
          ret |-> TRUE, raised |-> FALSE]

\* a stop that does not look at is_running
CPUStressTester_stop_unguarded(g) ==
    [g |-> [g EXCEPT !.is_running = FALSE, !.intensity = 0], ret |-> TRUE,
     raised |-> FALSE]

CPUStressTester_stop_stress_test(g) ==
    IF ~g.is_running THEN [g |-> g, ret |-> FALSE, raised |-> FALSE]
    ELSE [g |-> [g EXCEPT !.is_running = FALSE], ret |-> TRUE, raised |-> FALSE]

\* the parameter names of MemoryStressTester.start_stress_test
MemoryStartParameters == {"target_mb", "duration"}

\* 80% of the available memory, rounded down
MaxSafeMb(available_mb) == (available_mb * 8) \div 10

MemoryStressTester_start_stress_test(g, target_mb, duration, t, available_mb) ==
    IF g.is_running THEN [g |-> g, ret |-> FALSE, raised |-> FALSE]
    ELSE [g |-> [g EXCEPT !.is_running = TRUE,
                          !.target_mb = IF target_mb > MaxSafeMb(available_mb)
                                        THEN MaxSafeMb(available_mb) ELSE target_mb,
                          !.timers = IF duration # 0 THEN @ \cup {t + duration} ELSE @],
          ret |-> TRUE, raised |-> FALSE]

MemoryStressTester_stop_stress_test(g) ==
    IF ~g.is_running THEN [g |-> g, ret |-> FALSE, raised |-> FALSE]
    ELSE [g |-> [g EXCEPT !.is_running = FALSE], ret |-> TRUE, raised |-> FALSE]

\* a call with keyword arguments binds iff each keyword names a parameter;
\* otherwise Python raises TypeError before the callee runs
Binds(kwargs, parameters) == kwargs \subseteq parameters

\* the record kept of a call made on a load generator g with result r
CallRecord(generator, method, argument, g, r) ==
    [topic |-> "call", generator |-> generator, method |-> method,
     argument |-> argument, ret |-> r.ret, raised |-> r.raised,
     was_running |-> g.is_running, unchanged |-> (r.g = g)]

----------------------------------------------------------------------------
(* StressTestNode: the node that drives one CPU and one memory generator on *)
(* the commands of the stress_control topic.  An operation takes the node n *)
(* and returns it with n.ret set to the value returned and n.calls extended *)
(* by the calls made on the generators.  env holds what the environment     *)
(* decides during the call.                                                 *)

\* the values of the duration_seconds parameter explored (0 = indefinite)
NodeDurations == {0, 5}

\* what the environment decides during a control command
NodeEnv == [system_safe : BOOLEAN, spawn_ok : BOOLEAN, available_mb : {8192, 512}]

StressTestNode(duration_seconds) ==
    [cpu_tester |-> CPUStressTester,
     memory_tester |-> MemoryStressTester,
     cpu_intensity |-> 70,
     memory_target_mb |-> 512,
     duration_seconds |-> duration_seconds,
     ret |-> FALSE,
     calls |-> <<>>]

\* the memory generator is started only if the CPU start did not raise
NodeMemoryStarted(n, c, duration, t, env) ==
    IF c.raised THEN [n EXCEPT !.ret = FALSE]
    ELSE LET m == MemoryStressTester_start_stress_test(
                      n.memory_tester, n.memory_target_mb, duration, t, env.available_mb)
         IN [n EXCEPT !.memory_tester = m.g,
                      !.ret = c.ret /\ m.ret,
                      !.calls = Append(@, CallRecord("memory_tester", "start_stress_test",
                                                     n.memory_target_mb, n.memory_tester, m))]

StressTestNode_start_stress_test(n, t, env) ==
    LET duration == IF n.duration_seconds <= 0 THEN 0
                    ELSE Secs(n.duration_seconds)
    IN IF ~env.system_safe THEN [n EXCEPT !.ret = FALSE]
       ELSE LET c == CPUStressTester_start_stress_test(
                         n.cpu_tester, n.cpu_intensity, duration, t, env.spawn_ok)
            IN NodeMemoryStarted(
                 [n EXCEPT !.cpu_tester = c.g,
                           !.calls = Append(@, CallRecord("cpu_tester", "start_stress_test",
                                                          n.cpu_intensity, n.cpu_tester, c))],
                 c, duration, t, env)

StressTestNode_stop_stress_test(n) ==
    LET c == CPUStressTester_stop_stress_test(n.cpu_tester)
        m == MemoryStressTester_stop_stress_test(n.memory_tester)
    IN [n EXCEPT !.cpu_tester = c.g,
                 !.memory_tester = m.g,
                 !.ret = c.ret \/ m.ret,
                 !.calls = @ \o <<CallRecord("cpu_tester", "stop_stress_test", 0,
                                             n.cpu_tester, c),
                                  CallRecord("memory_tester", "stop_stress_test", 0,
                                             n.memory_tester, m)>>]

\* the commands of the stress_control topic; any other text is ignored
StressTestNode_control_callback(n, command, t, env) ==
    IF command = "start" THEN StressTestNode_start_stress_test(n, t, env)
    ELSE IF command = "stop" THEN StressTestNode_stop_stress_test(n)
    ELSE IF command = "restart"
    THEN StressTestNode_start_stress_test(StressTestNode_stop_stress_test(n), t, env)
    ELSE n

----------------------------------------------------------------------------
(* StressOrchestrator.  The object is a record; an operation takes the      *)
(* object s and returns it after the call, with s.ret set to the value the  *)
(* call returned.  t is the value time.time() returns inside the call; env  *)
(* holds what the environment decides during the call.  s.emitted lists, in *)
(* order, the messages the running handler has published (other than the   *)
(* scenario status, kept for all time in s.scenario_status_pub) and the     *)
(* calls it has made on the load generators.                                *)

\* what the environment decides during one call: whether the worker processes
\* can be spawned, and the time that passes between the caller's clock
\* reading and the clock reading at phase entry
Env(delays) == [spawn_ok : BOOLEAN, delay : delays]

Ret(s, value) == [s EXCEPT !.ret = value]

\* with self.orchestrator_lock: the lock is a threading.Lock, which its
\* holder cannot take again; reentered records an attempt to do so
Acquire(s) == [s EXCEPT !.orchestrator_lock = TRUE,
                        !.reentered = @ \/ s.orchestrator_lock]

Release(s) == [s EXCEPT !.orchestrator_lock = FALSE]

\* a change of the table active_processes, entered in table_log with the
\* state of the lock at the change
Mutation(s, op, key) ==
    [s EXCEPT !.table_log = Append(@, [op |-> op, key |-> key,
                                       locked |-> s.orchestrator_lock])]

\* if key not in self.active_processes: self.active_processes[key] = ...
Inserted(s, key) ==
    IF key \in s.active_processes THEN s
    ELSE [Mutation(s, "insert", key) EXCEPT !.active_processes = @ \cup {key}]

\* self.active_processes.clear()
Cleared(s) == [Mutation(s, "clear", "") EXCEPT !.active_processes = {}]

CurrentScenario(s) == scenarios[s.current_scenario]

CurrentPhase(s) == CurrentScenario(s).phases[s.current_phase_index + 1]

_publish_command(s, command) ==
    [s EXCEPT !.emitted = Append(@, command)]

_publish_scenario_status(s, status) ==
    [s EXCEPT !.scenario_status_pub =
        Append(@, [status |-> status, scenario |-> s.current_scenario])]

_publish_phase_progress(s) ==
    IF ~s.is_running \/ s.current_scenario = NoScenario THEN s
    ELSE [s EXCEPT !.emitted = Append(@,
            [topic |-> "phase_progress",
             scenario_name |-> s.current_scenario,
             phase_index |-> s.current_phase_index,
             phase_name |-> CurrentPhase(s).name])]

_start_pure_baseline_measurement(s, parameters) ==
    Ret(_publish_command(s,
            [topic |-> "orchestrator_commands", target |-> "baseline_collector",
             action |-> "start_measurement",
             duration |-> CurrentPhase(s).duration,
             auto_save |-> Get(parameters, "auto_save", TRUE)]),
        TRUE)

_start_cpu_stress(s, parameters, t, env) ==
    LET cpu_intensity == Get(parameters, "cpu_intensity", 50)
        g == IF "cpu_stress" \in s.active_processes THEN s.cpu ELSE CPUStressTester
        r == CPUStressTester_start_stress_test(g, cpu_intensity, CurrentPhase(s).duration,
                                               t, env.spawn_ok)
    IN [Inserted(s, "cpu_stress") EXCEPT
                 !.cpu = r.g,
                 !.ret = ~r.raised /\ r.ret,
                 !.emitted = Append(@, CallRecord("cpu_stress", "start_stress_test",
                                                  cpu_intensity, g, r))]

\* the call passes target_memory (the byte count) and duration by keyword
_start_memory_stress(s, parameters, t, env) ==
    LET memory_usage == Get(parameters, "memory_usage", 1024)
        g == IF "memory_stress" \in s.active_processes THEN s.mem ELSE MemoryStressTester
    IN IF ~Binds({"target_memory", "duration"}, MemoryStartParameters)
       THEN [Inserted(s, "memory_stress") EXCEPT
                      !.mem = g,
                      !.ret = FALSE]
       ELSE LET r == MemoryStressTester_start_stress_test(g, memory_usage * 1048576,
                                                          CurrentPhase(s).duration, t, 8192)
            IN [Inserted(s, "memory_stress") EXCEPT
                         !.mem = r.g,
                         !.ret = r.ret,
                         !.emitted = Append(@, CallRecord("memory_stress",
                                                "start_stress_test", memory_usage, g, r))]

_start_message_stress(s, parameters) ==
    Ret(_publish_command(s,
            [topic |-> "orchestrator_commands", target |-> "message_stress_publisher",
             action |-> "update_parameters",
             publish_rate |-> Get(parameters, "message_rate", 10),
             payload_size |-> Get(parameters, "payload_size", 1024),
             burst_mode |-> Get(parameters, "burst_mode", FALSE)]),
        TRUE)

\* the command sent for each known throughput test type
ThroughputCommands ==
    [frequency_progression |-> "start_frequency_test",
     sustainable_rate |-> "start_sustainable_rate_test",
     queue_overflow |-> "start_queue_overflow_test",
     burst_pattern |-> "start_burst_test",
     cpu_load_throughput |-> "start_cpu_load_test"]

_start_throughput_stress(s, parameters) ==
    LET throughput_test == Get(parameters, "throughput_test", "frequency_progression")
    IN IF throughput_test \in DOMAIN ThroughputCommands
       THEN Ret(_publish_command(s,
                    [topic |-> "throughput_test_control",
                     command |-> ThroughputCommands[throughput_test]]),
                TRUE)
       ELSE Ret(s, FALSE)

\* success &= <start of a required component>: s holds success so far in
\* s.ret, started is s after the component's start
Required(s, required, started) ==
    IF required THEN Ret(started, s.ret /\ started.ret) ELSE s

RequireCpu(s, t, env) ==
    Required(s, CurrentScenario(s).requires_cpu_stress,
             _start_cpu_stress(s, CurrentPhase(s).parameters, t, env))

RequireMemory(s, t, env) ==
    Required(s, CurrentScenario(s).requires_memory_stress,
             _start_memory_stress(s, CurrentPhase(s).parameters, t, env))

RequireMessage(s) ==
    Required(s, CurrentScenario(s).requires_message_stress,
             _start_message_stress(s, CurrentPhase(s).parameters))

RequireThroughput(s) ==
    Required(s, CurrentScenario(s).requires_throughput_stress,
             _start_throughput_stress(s, CurrentPhase(s).parameters))

\* the components of the phase, started in the order of the code
StartComponents(s, t, env) ==
    IF Get(CurrentPhase(s).parameters, "baseline_only", FALSE)
    THEN _start_pure_baseline_measurement(s, CurrentPhase(s).parameters)
    ELSE RequireThroughput(RequireMessage(RequireMemory(RequireCpu(Ret(s, TRUE), t, env),
                                                        t, env)))

\* the end of _start_current_phase: progress is published on success
PhaseStarted(s) == IF s.ret THEN Ret(_publish_phase_progress(s), TRUE) ELSE s

_start_current_phase(s, t, env) ==
    IF s.current_scenario = NoScenario
       \/ s.current_phase_index >= Len(CurrentScenario(s).phases)
    THEN Ret(s, FALSE)
    ELSE PhaseStarted(StartComponents([s EXCEPT !.phase_start_time = t], t, env))

\* the end of _start_scenario_internal, s being the object after the start
\* of the first phase
ScenarioStarted(s) ==
    IF s.ret THEN Ret(_publish_scenario_status(s, "started"), TRUE)
    ELSE [s EXCEPT !.is_running = FALSE, !.current_scenario = NoScenario]

_start_scenario_internal(s, scenario_name, t, env) ==
    ScenarioStarted(_start_current_phase(
        [s EXCEPT !.current_scenario = scenario_name,
                  !.current_phase_index = 0,
                  !.scenario_start_time = t,
                  !.is_running = TRUE,
                  !.shutdown_requested = FALSE],
        t, env))

\* starts the pending scenario, if any, and forgets it
StartPending(s, t, env) ==
    IF s.pending_scenario # NoScenario
    THEN _start_scenario_internal([s EXCEPT !.pending_scenario = NoScenario],
                                  s.pending_scenario, t, env)
    ELSE s

_simulate_baseline_measurement(s, t, env) ==
    StartPending([s EXCEPT !.baseline_summary = TRUE, !.baseline_completed = TRUE],
                 t, env)

_start_baseline_measurement(s, t, env) ==
    IF ~s.baseline_client_available THEN Ret(s, FALSE)
    ELSE Ret(_simulate_baseline_measurement(s, t, env), TRUE)

\* start_scenario after _start_baseline_measurement, b being the object it
\* left
BaselineFirst(b, scenario_name, t, env) ==
    IF b.ret THEN [b EXCEPT !.pending_scenario = scenario_name, !.ret = TRUE]
    ELSE _start_scenario_internal(b, scenario_name, t, env)

\* start_scenario without the rejection of a request made while running
start_scenario_while_running(s, scenario_name, t, env) ==
    IF scenario_name \notin ScenarioNames THEN Ret(s, FALSE)
    ELSE IF s.auto_baseline_before_stress /\ ~s.baseline_completed
    THEN BaselineFirst(_start_baseline_measurement(s, t, env), scenario_name, t, env)
    ELSE _start_scenario_internal(s, scenario_name, t, env)

\* the body of start_scenario
start_scenario_locked(s, scenario_name, t, env) ==
    IF s.is_running THEN Ret(s, FALSE)
    ELSE IF scenario_name \notin ScenarioNames THEN Ret(s, FALSE)
    ELSE IF s.auto_baseline_before_stress /\ ~s.baseline_completed
    THEN BaselineFirst(_start_baseline_measurement(s, t, env), scenario_name, t, env)
    ELSE _start_scenario_internal(s, scenario_name, t, env)

start_scenario(s, scenario_name, t, env) ==
    Release(start_scenario_locked(Acquire(s), scenario_name, t, env))

StopCpu(s) ==
    IF "cpu_stress" \in s.active_processes
    THEN LET r == CPUStressTester_stop_stress_test(s.cpu)
         IN [s EXCEPT !.cpu = r.g,
                      !.emitted = Append(@, CallRecord("cpu_stress", "stop_stress_test",
                                                       0, s.cpu, r))]
    ELSE s

StopMemory(s) ==
    IF "memory_stress" \in s.active_processes
    THEN LET r == MemoryStressTester_stop_stress_test(s.mem)
         IN [s EXCEPT !.mem = r.g,
                      !.emitted = Append(@, CallRecord("memory_stress", "stop_stress_test",
                                                       0, s.mem, r))]
    ELSE s

_cleanup_phase_processes(s) == StopMemory(StopCpu(s))

\* a cleanup that clears the table and stops nothing
_cleanup_without_stop(s) == [s EXCEPT !.active_processes = {}]

\* every generator of the table is told to stop; clear() then drops the
\* instances, which nothing but their own timers references any more (a
\* later start makes new instances)
_cleanup_all_processes(s) ==
    [Cleared(StopMemory(StopCpu(s))) EXCEPT
                                   !.cpu = CPUStressTester,
                                   !.mem = MemoryStressTester]

\* the body of stop_scenario
stop_scenario_locked(s) ==
    IF ~s.is_running THEN Ret(s, FALSE)
    ELSE Ret(_publish_scenario_status(
                 [_cleanup_all_processes([s EXCEPT !.shutdown_requested = TRUE])
                     EXCEPT !.is_running = FALSE,
                            !.current_scenario = NoScenario,
                            !.current_phase_index = 0],
                 "stopped"),
             TRUE)

stop_scenario(s) == Release(stop_scenario_locked(Acquire(s)))

_complete_scenario(s) == stop_scenario(s)

\* the end of _transition_to_next_phase, s being the object after the start
\* of the next phase
NextPhaseStarted(s) == IF s.ret THEN s ELSE stop_scenario(s)

\* the rest of _transition_to_next_phase, s being the object after the
\* increment of current_phase_index
Transition(s, t, env) ==
    IF s.current_phase_index >= Len(CurrentScenario(s).phases)
    THEN _complete_scenario(s)
    ELSE NextPhaseStarted(_start_current_phase(_cleanup_phase_processes(s),
                                               t + env.delay, env))

\* a transition that passes over the next phase
_transition_over_next_phase(s, t, env) ==
    Transition([s EXCEPT !.current_phase_index = @ + 2], t, env)

_transition_to_next_phase(s, t, env) ==
    Transition([s EXCEPT !.current_phase_index = @ + 1], t, env)

_baseline_status_callback(s, status, t, env) ==
    IF status = "completed"
    THEN StartPending([s EXCEPT !.baseline_completed = TRUE], t, env)
    ELSE s

----------------------------------------------------------------------------
(* ThroughputTester: the sustainable-rate search.  The tester is a record;  *)
(* pc is the position of start_sustainable_rate_test, which runs inside     *)
(* control_callback, on the thread of the executor that rclpy.spin(node)    *)
(* runs.  Rates are in Hz.  The link is given by its threshold: the highest *)
(* offered rate whose loss is within the tolerance.                         *)

\* the thresholds of the links explored
Thresholds == {1, 5, 9, 10, 11, 5000, 9999, 10000, 19995, 20000}

\* the loss of the link at an offered rate, in percent: non-decreasing in
\* the rate, within the tolerance up to the threshold and above it beyond
LinkLoss(rate, threshold) == IF rate <= threshold THEN 0 ELSE 50

\* timer callbacks run during time.sleep(seconds) in a procedure: the
\* executor runs one callback at a time, so while the procedure occupies it
\* the publishing timer created by the procedure is never serviced
TimerFirings(rate, seconds, executor_occupied) ==
    IF executor_occupied THEN 0 ELSE rate * seconds

\* deliveries counted by handle_test_message_received within the trial
Deliveries(sent, rate, threshold, executor_occupied) ==
    IF executor_occupied THEN 0
    ELSE sent - (sent * LinkLoss(rate, threshold)) \div 100

ThroughputTester ==
    [current_test_active |-> FALSE,
     pc |-> "spin",
     min_rate |-> 0, max_rate |-> 0, sustainable_rate |-> 0, test_rate |-> 0,
     message_counters |-> [sent |-> 0, received |-> 0, lost |-> 0],
     accepted |-> {}, rejected |-> {},
     created |-> <<>>,
     waiting |-> <<>>,
     test_results |-> <<>>,
     published |-> <<>>]

\* the counters create_test_topic_pair and the tests start from
NoCounters == [sent |-> 0, received |-> 0, lost |-> 0]

\* self.test_results[test_name] = results: test_results is a dictionary, a
\* function of the names of the tests that have stored a result
Stored(test_results, test_name, results) ==
    [n \in DOMAIN test_results \cup {test_name} |->
        IF n = test_name THEN results ELSE test_results[n]]

\* create_test_topic_pair: a publisher and a subscription on the topic, and
\* its counters
create_test_topic_pair(tt, topic_name) ==
    [tt EXCEPT !.created = Append(@, topic_name), !.message_counters = NoCounters]

\* the subscriptions of the node on a test topic: every call of
\* create_test_topic_pair creates one and none is destroyed, and each of them
\* calls handle_test_message_received for every message delivered
Subscriptions(tt, topic_name) ==
    Cardinality({i \in DOMAIN tt.created : tt.created[i] = topic_name})

\* a test procedure that runs on a thread of its own
OnItsOwnThread(tt) == FALSE

\* the executor is inside control_callback from the start of the procedure
\* until the procedure returns to rclpy.spin
InCallback(tt) == tt.pc # "spin"

\* start_sustainable_rate_test without its test of current_test_active
start_sustainable_rate_test_unguarded(tt) ==
    [create_test_topic_pair(tt, "sustainable_rate")
       EXCEPT !.current_test_active = TRUE,
              !.min_rate = 1, !.max_rate = 20000,
              !.sustainable_rate = 0, !.test_rate = 0,
              !.accepted = {}, !.rejected = {},
              !.pc = "while"]

\* start_sustainable_rate_test up to the loop
start_sustainable_rate_test(tt) ==
    IF tt.current_test_active THEN tt
    ELSE [create_test_topic_pair(tt, "sustainable_rate")
                EXCEPT !.current_test_active = TRUE,
                    !.min_rate = 1,
                    !.max_rate = 20000,
                    !.sustainable_rate = 0,
                    !.test_rate = 0,
                    !.accepted = {}, !.rejected = {},
                    !.pc = "while"]

\* a loop whose probe is the lower bound
SearchLoopAtLowerBound(tt) ==
    [tt EXCEPT !.test_rate = tt.min_rate, !.pc = "sleep"]

\* the loop condition; the probe rate and the reset of the counters, or the
\* end of the procedure: the result is stored and published
SearchLoop(tt) ==
    IF tt.max_rate - tt.min_rate > 10
    THEN [tt EXCEPT !.test_rate = (tt.min_rate + tt.max_rate) \div 2,
                    !.message_counters = [sent |-> 0, received |-> 0, lost |-> 0],
                    !.pc = "sleep"]
    ELSE [tt EXCEPT !.test_results = Stored(@, "sustainable_rate",
                                            [max_sustainable_rate |-> tt.sustainable_rate]),
                    !.current_test_active = FALSE,
                    !.published = Append(@, [test_name |-> "sustainable_rate",
                                             max_sustainable_rate |-> tt.sustainable_rate]),
                    !.pc = "spin"]

\* loss_rate <= tolerance, with loss_rate = (sent - received) / sent if
\* sent > 0 else 1.0 and tolerance = 0.05
WithinTolerance(sent, received) ==
    IF sent > 0 THEN (sent - received) * 100 <= 5 * sent ELSE FALSE

\* a trial that ends with the flag cleared
TrialCountedFlagCleared(tt, sent, received) ==
    [tt EXCEPT !.message_counters = [sent |-> sent, received |-> received, lost |-> 0],
               !.max_rate = tt.test_rate,
               !.rejected = @ \cup {tt.test_rate},
               !.current_test_active = FALSE,
               !.pc = "while"]

\* the end of a trial: the counters are read and the bounds moved
TrialCounted(tt, sent, received) ==
    IF WithinTolerance(sent, received)
    THEN [tt EXCEPT !.message_counters = [sent |-> sent, received |-> received,
                                          lost |-> 0],
                    !.sustainable_rate = tt.test_rate,
                    !.min_rate = tt.test_rate,
                    !.accepted = @ \cup {tt.test_rate},
                    !.pc = "while"]
    ELSE [tt EXCEPT !.message_counters = [sent |-> sent, received |-> received,
                                          lost |-> 0],
                    !.max_rate = tt.test_rate,
                    !.rejected = @ \cup {tt.test_rate},
                    !.pc = "while"]

\* the trial: time.sleep(5.0), then the counters are read and the bounds moved
SearchTrial(tt, threshold) ==
    TrialCounted(tt, TimerFirings(tt.test_rate, 5, InCallback(tt)),
                 Subscriptions(tt, "sustainable_rate")
                   * Deliveries(TimerFirings(tt.test_rate, 5, InCallback(tt)),
                                tt.test_rate, threshold, InCallback(tt)))

\* the end of a test: the result is stored, the flag cleared, the result
\* published
TestCompleted(tt, test_name, results) ==
    [tt EXCEPT !.test_results = Stored(@, test_name, results),
               !.current_test_active = FALSE,
               !.published = Append(@, [test_name |-> test_name])]

\* the test_frequencies parameter, used when the command names no frequencies
DefaultFrequencies == <<1, 10, 100, 1000, 10000>>

\* start_frequency_progression_test runs inside control_callback, so the
\* executor is occupied during each trial; after a trial the log line
\* computes (received/sent)*100: with sent = 0 ZeroDivisionError leaves the
\* procedure with the flag set, and control_callback logs it
start_frequency_progression_test(tt, frequencies) ==
    IF tt.current_test_active THEN tt
    ELSE IF \E i \in DOMAIN frequencies : TimerFirings(frequencies[i], 10, TRUE) = 0
    THEN [create_test_topic_pair(tt, "frequency_progression")
            EXCEPT !.current_test_active = TRUE]
    ELSE TestCompleted(create_test_topic_pair(tt, "frequency_progression"),
                       "frequency_progression", [frequencies |-> frequencies])

\* the tests that divide by a counter only when it is positive: queue
\* overflow, burst pattern, CPU load and discovery overhead.  They run inside
\* control_callback from start to end
start_counting_test(tt, test_name) ==
    IF tt.current_test_active THEN tt
    ELSE TestCompleted(create_test_topic_pair(tt, test_name), test_name,
                       [sent |-> TimerFirings(1000, 10, TRUE), received |-> 0])

\* the commands that start a test of that kind, and the test's name
CountingTests ==
    [start_burst_test |-> "burst_pattern",
     start_cpu_load_test |-> "cpu_load_throughput",
     start_queue_overflow_test |-> "queue_overflow",
     start_discovery_overhead_test |-> "discovery_overhead"]

stop_current_test(tt) == [tt EXCEPT !.current_test_active = FALSE]

\* publish_current_results: all the results, if there are any
publish_current_results(tt) ==
    IF DOMAIN tt.test_results = {} THEN tt
    ELSE [tt EXCEPT !.published = Append(@, [test_name |-> "all_test_results"])]

\* signal_handler of main: stop_current_test, rclpy.shutdown and sys.exit,
\* which leaves whatever the main thread was executing
signal_handler(tt) == [stop_current_test(tt) EXCEPT !.pc = "spin"]

\* ThroughputTester.control_callback: command_data is the decoded message
ThroughputTester_control_callback(tt, command_data) ==
    IF command_data.command = "start_frequency_test"
    THEN start_frequency_progression_test(tt, command_data.frequencies)
    ELSE IF command_data.command \in DOMAIN CountingTests
    THEN start_counting_test(tt, CountingTests[command_data.command])
    ELSE IF command_data.command = "start_sustainable_rate_test"
    THEN start_sustainable_rate_test(tt)
    ELSE IF command_data.command = "get_results" THEN publish_current_results(tt)
    ELSE IF command_data.command = "stop_test" THEN stop_current_test(tt)
    ELSE tt

----------------------------------------------------------------------------
(* BaselineCollector: the node that measures an idle system.  The collector *)
(* is a record; pc is the position of the executor that rclpy.spin(node)    *)
(* runs: "spin" between callbacks, "validating" inside                      *)
(* start_baseline_measurement while validate_system_idle samples the        *)
(* system, "blocked" once a callback waits for a lock that is never         *)
(* released.  For this node the clock counts seconds.  An operation returns *)
(* the collector with the service response appended to responses.           *)

RECURSIVE Sum(_)
Sum(values) == IF values = <<>> THEN 0 ELSE values[1] + Sum(Tail(values))

RECURSIVE SumSq(_)
SumSq(values) ==
    IF values = <<>> THEN 0 ELSE values[1] * values[1] + SumSq(Tail(values))

\* n (n - 1) times the sample variance of the values: statistics.stdev is the
\* square root of the sum of squared deviations over n - 1
ScaledVariance(values) == Len(values) * SumSq(values) - Sum(values) * Sum(values)

\* statistics.stdev(values) > limit, for two values or more
StdevAbove(values, limit) ==
    ScaledVariance(values) > limit * limit * Len(values) * (Len(values) - 1)

\* the parameters of the node, in seconds and percent: shorter durations than
\* the defaults, for a measurement of a few samples
CollectorParameters ==
    [measurement_duration |-> 2,
     sample_interval |-> 1,
     idle_detection_threshold |-> 30,
     idle_detection_duration |-> 6]

NoTimer == [armed |-> FALSE, due |-> NoTime]

NoBaseline == [measurement_start |-> NoTime]

BaselineCollector(auto_validate_idle) ==
    [is_measuring |-> FALSE,
     measurement_start_time |-> NoTime,
     system_metrics_history |-> <<>>,
     message_metrics_history |-> <<>>,
     idle_validated |-> FALSE,
     current_baseline |-> NoBaseline,
     measurement_timer |-> NoTimer,
     completion_timer |-> NoTimer,
     baseline_status_pub |-> <<>>,
     baseline_metrics_pub |-> <<>>,
     system_idle_pub |-> <<>>,
     auto_validate_idle |-> auto_validate_idle,
     pc |-> "spin",
     validation |-> [start_time |-> NoTime, samples |-> <<>>, standalone |-> FALSE],
     run_validated |-> FALSE,
     waiting |-> <<>>,
     responses |-> <<>>,
     raised |-> FALSE]

\* the response of a Trigger service: success and message
Respond(c, success, message) ==
    [c EXCEPT !.responses = Append(@, [success |-> success, message |-> message])]

\* the states of the collector: Completed is the state in which a summary is
\* held and nothing is measured
CollectorState(c) ==
    IF c.pc = "validating" THEN "ValidatingIdle"
    ELSE IF c.is_measuring THEN "Measuring"
    ELSE "Idle"

\* start_baseline_measurement once the system is taken as idle;
\* run_validated tells whether validate_system_idle was called for the run
MeasurementStarted(c, t) ==
    Respond([c EXCEPT !.system_metrics_history = <<>>,
                      !.run_validated = (c.pc = "validating"),
                      !.message_metrics_history = <<>>,
                      !.is_measuring = TRUE,
                      !.measurement_start_time = t,
                      !.measurement_timer =
                          [armed |-> TRUE, due |-> t + CollectorParameters.sample_interval],
                      !.completion_timer =
                          [armed |-> TRUE,
                           due |-> t + CollectorParameters.measurement_duration],
                      !.baseline_status_pub = Append(@, "started"),
                      !.pc = "spin"],
            TRUE, "Baseline measurement started")

\* validate_system_idle returned False: start_baseline_measurement returns the
\* reason
ValidationFailed(c, reason) ==
    Respond([c EXCEPT !.pc = "spin"], FALSE, reason)

\* start_baseline_measurement up to the validation
start_baseline_measurement(c, t) ==
    IF c.is_measuring
    THEN Respond(c, FALSE, "Baseline measurement already in progress")
    ELSE IF c.auto_validate_idle
    THEN [c EXCEPT !.pc = "validating",
                   !.validation = [start_time |-> t, samples |-> <<>>,
                                   standalone |-> FALSE]]
    ELSE MeasurementStarted(c, t)

\* _validate_idle_service up to the validation
_validate_idle_service(c, t) ==
    [c EXCEPT !.pc = "validating",
              !.validation = [start_time |-> t, samples |-> <<>>, standalone |-> TRUE]]

ValidationSampleAtThreshold(c, cpu_percent, memory_percent) ==
    IF cpu_percent >= CollectorParameters.idle_detection_threshold
    THEN ValidationFailed(c, "CPU usage too high")
    ELSE IF memory_percent >= 85
    THEN ValidationFailed(c, "Memory usage too high")
    ELSE [c EXCEPT !.validation.samples = Append(@, cpu_percent)]

\* one round of the loop of validate_system_idle
ValidationSample(c, cpu_percent, memory_percent) ==
    IF cpu_percent > CollectorParameters.idle_detection_threshold
    THEN ValidationFailed(c, "CPU usage too high")
    ELSE IF memory_percent > 85
    THEN ValidationFailed(c, "Memory usage too high")
    ELSE [c EXCEPT !.validation.samples = Append(@, cpu_percent)]

\* validate_system_idle after the loop, and the rest of
\* start_baseline_measurement
ValidationEnd(c, t) ==
    IF Len(c.validation.samples) > 1 /\ StdevAbove(c.validation.samples, 10)
    THEN ValidationFailed(c, "System too unstable")
    ELSE IF c.validation.standalone
    THEN Respond([c EXCEPT !.idle_validated = TRUE,
                           !.system_idle_pub = Append(@, TRUE),
                           !.pc = "spin"],
                 TRUE, "System idle validated")
    ELSE MeasurementStarted([c EXCEPT !.idle_validated = TRUE,
                                      !.system_idle_pub = Append(@, TRUE)], t)

\* no system metrics: _collect_system_metrics returned None
NoSample == [cpu_percent |-> -1, memory_percent |-> -1]

_collect_baseline_sample(c, sample, t) ==
    IF ~c.is_measuring THEN c
    ELSE [c EXCEPT !.system_metrics_history =
                       IF sample = NoSample THEN @ ELSE Append(@, sample),
                   !.message_metrics_history = Append(@, t)]

\* a rational number; denominators are positive
Frac(num, den) == [num |-> num, den |-> den]

FracLeq(a, b) == a.num * b.den <= b.num * a.den

FracOf(x) == Frac(x, 1)

RECURSIVE Insert(_, _)
Insert(x, s) ==
    IF s = <<>> THEN <<x>>
    ELSE IF x <= s[1] THEN <<x>> \o s
    ELSE <<s[1]>> \o Insert(x, Tail(s))

\* sorted(values)
RECURSIVE Sort(_)
Sort(values) == IF values = <<>> THEN <<>> ELSE Insert(values[1], Sort(Tail(values)))

\* statistics.median of sorted values: the middle one, or the mean of the two
\* middle ones
MedianOfSorted(s) ==
    IF Len(s) % 2 = 1 THEN Frac(2 * s[(Len(s) + 1) \div 2], 2)
    ELSE Frac(s[Len(s) \div 2] + s[Len(s) \div 2 + 1], 2)

\* _calculate_statistics with min and max taken at the ends of the values as
\* they come
_calculate_statistics_unsorted(values) ==
    IF values = <<>>
    THEN [min |-> FracOf(0), max |-> FracOf(0), mean |-> FracOf(0),
          variance |-> FracOf(0), median |-> FracOf(0)]
    ELSE [min |-> FracOf(values[1]),
          max |-> FracOf(values[Len(values)]),
          mean |-> Frac(Sum(values), Len(values)),
          variance |-> IF Len(values) > 1
                       THEN Frac(ScaledVariance(values), Len(values) * (Len(values) - 1))
                       ELSE FracOf(0),
          median |-> MedianOfSorted(Sort(values))]

\* _calculate_statistics.  The values are whole numbers here; mean and median
\* are the exact quotients the statistics module rounds to a float, and
\* variance stands for std, its square root (std is 0.0 for one value)
_calculate_statistics(values) ==
    IF values = <<>>
    THEN [min |-> FracOf(0), max |-> FracOf(0), mean |-> FracOf(0),
          variance |-> FracOf(0), median |-> FracOf(0)]
    ELSE [min |-> FracOf(Sort(values)[1]),
          max |-> FracOf(Sort(values)[Len(values)]),
          mean |-> Frac(Sum(values), Len(values)),
          variance |-> IF Len(values) > 1
                       THEN Frac(ScaledVariance(values), Len(values) * (Len(values) - 1))
                       ELSE FracOf(0),
          median |-> MedianOfSorted(Sort(values))]

_determine_measurement_quality_by_stability(stability_score, duration, sample_count) ==
    IF stability_score >= 900 THEN "excellent"
    ELSE IF stability_score >= 800 THEN "good"
    ELSE IF stability_score >= 600 THEN "fair"
    ELSE "poor"

\* the minimum duration, in seconds, and the minimum number of samples for
\* good quality
min_duration == 60

min_samples == 30

\* _determine_measurement_quality, with stability_score in thousandths and
\* duration in seconds
_determine_measurement_quality(stability_score, duration, sample_count) ==
    IF stability_score >= 900 /\ duration >= min_duration * 3
       /\ sample_count >= min_samples * 3
    THEN "excellent"
    ELSE IF stability_score >= 800 /\ duration >= min_duration
            /\ sample_count >= min_samples
    THEN "good"
    ELSE IF stability_score >= 600 /\ 2 * duration >= min_duration
    THEN "fair"
    ELSE "poor"

\* cpu_baseline and memory_baseline when nothing was collected: {}
NoStatistics == [keys |-> {}]

\* the column of the history
Column(history, field) == [i \in DOMAIN history |-> history[i][field]]

\* _generate_baseline_summary: the fields that follow from the run.  The
\* stability score and the quality, which need the square root of the
\* variance, are not carried
_generate_baseline_summary(c, duration) ==
    [measurement_start |-> c.measurement_start_time,
     measurement_duration |-> duration,
     system_idle_confirmed |-> c.idle_validated,
     cpu_baseline |-> IF c.system_metrics_history = <<>> THEN NoStatistics
                      ELSE _calculate_statistics(
                               Column(c.system_metrics_history, "cpu_percent")),
     memory_baseline |-> IF c.system_metrics_history = <<>> THEN NoStatistics
                         ELSE _calculate_statistics(
                                  Column(c.system_metrics_history, "memory_percent")),
     sample_count |-> Len(c.system_metrics_history)]

\* Timer.cancel(): a timer the executor has already found ready can still be
\* called once
Cancelled(timer, t) ==
    IF timer.due # NoTime /\ timer.due <= t THEN [timer EXCEPT !.armed = FALSE]
    ELSE NoTimer

\* _complete_baseline_measurement, called with collector_lock free.  Its last
\* log lines read cpu_baseline['mean']: KeyError when nothing was collected
_complete_baseline_measurement(c, t) ==
    IF ~c.is_measuring THEN c
    ELSE [c EXCEPT !.measurement_timer = Cancelled(@, t),
                   !.completion_timer = Cancelled(@, t),
                   !.is_measuring = FALSE,
                   !.current_baseline =
                       _generate_baseline_summary(c, t - c.measurement_start_time),
                   !.baseline_status_pub = Append(@, "completed"),
                   !.baseline_metrics_pub =
                       Append(@, _generate_baseline_summary(c, t - c.measurement_start_time)),
                   !.raised = (c.system_metrics_history = <<>>)]

\* stop_baseline_measurement takes collector_lock, a threading.Lock, and
\* calls _complete_baseline_measurement, which takes it again: the thread
\* waits for itself
stop_baseline_measurement(c) ==
    IF ~c.is_measuring
    THEN Respond(c, FALSE, "No baseline measurement in progress")
    ELSE [c EXCEPT !.pc = "blocked"]

----------------------------------------------------------------------------
(* Bounded series.  MessageStressSubscriber, MetricsCollector and           *)
(* SystemMonitor keep their series in collections.deque(maxlen=...).        *)

\* list.append(x): the series grows without limit
list_append(series, x, maxlen) == Append(series, x)

\* deque.append(x) on a deque of the given maxlen
deque_append(series, x, maxlen) ==
    IF maxlen = 0 THEN <<>>
    ELSE IF Len(series) >= maxlen THEN Append(Tail(series), x)
    ELSE Append(series, x)

Max2(a, b) == IF a >= b THEN a ELSE b

(* MessageStressSubscriber, for one topic.  The clock counts milliseconds. *)

\* the parameters of the node: a window of a few entries
SubscriberParameters == [statistics_window |-> 2]

\* the value of self.metrics[topic_name] on first use
TopicMetrics ==
    [latency_data |-> <<>>,
     arrival_times |-> <<>>,
     sequence_numbers |-> <<>>,
     callback_times |-> <<>>,
     message_count |-> 0,
     last_sequence |-> -1,
     expected_sequence |-> 0,
     lost_messages |-> 0,
     duplicate_messages |-> 0]

MessageStressSubscriber == [metrics |-> TopicMetrics, total_messages |-> 0]

\* what _extract_message_info returns: timestamp_ns and sequence_num, each
\* of which can be None
MessageInfo(stamped, timestamp_ns, sequenced, sequence_num) ==
    [stamped |-> stamped, timestamp_ns |-> timestamp_ns,
     sequenced |-> sequenced, sequence_num |-> sequence_num]

_track_sequence_number(topic_metrics, sequence_num) ==
    [topic_metrics EXCEPT
        !.sequence_numbers =
            deque_append(@, sequence_num, SubscriberParameters.statistics_window),
        !.lost_messages =
            IF topic_metrics.last_sequence >= 0
               /\ sequence_num > topic_metrics.last_sequence + 1
            THEN @ + (sequence_num - (topic_metrics.last_sequence + 1))
            ELSE @,
        !.duplicate_messages =
            IF topic_metrics.last_sequence >= 0
               /\ sequence_num < topic_metrics.last_sequence + 1
            THEN @ + 1
            ELSE @,
        !.last_sequence = Max2(@, sequence_num)]

\* the part of _message_callback before the sequence number is tracked
MessageCounted(topic_metrics, info, receive_time) ==
    [topic_metrics EXCEPT
        !.message_count = @ + 1,
        !.latency_data =
            deque_append(@, receive_time - info.timestamp_ns,
                         SubscriberParameters.statistics_window),
        !.arrival_times =
            deque_append(@, receive_time, SubscriberParameters.statistics_window)]

\* the part of _message_callback after the sequence number is tracked
CallbackTimed(topic_metrics, callback_duration) ==
    [topic_metrics EXCEPT
        !.callback_times =
            deque_append(@, callback_duration, SubscriberParameters.statistics_window)]

_message_callback(sub, info, receive_time, callback_duration) ==
    IF ~info.stamped THEN sub
    ELSE [sub EXCEPT
            !.total_messages = @ + 1,
            !.metrics =
                CallbackTimed(
                    IF info.sequenced
                    THEN _track_sequence_number(
                             MessageCounted(@, info, receive_time), info.sequence_num)
                    ELSE MessageCounted(@, info, receive_time),
                    callback_duration)]

(* MetricsCollector.  The clock counts seconds; latencies are in hundredths *)
(* of a millisecond, loss rates in hundredths of a percent, CPU and memory  *)
(* in tenths of a percent.                                                  *)

\* the parameters of the node: the default thresholds and a retention period
\* of a few seconds
MetricsParameters ==
    [collection_interval |-> 1,
     retention_period |-> 2,
     aggregation_window |-> 60,
     alert_latency_threshold |-> 10000,
     alert_loss_threshold |-> 500]

\* self.current_metrics == {}
NoMetrics == [topics |-> 0]

SubscriberStats(avg, loss_rate) ==
    [topics |-> 1, avg |-> avg, loss_rate |-> loss_rate]

MetricsCollector(enable_system_monitoring) ==
    [system_history |-> <<>>,
     aggregated_history |-> <<>>,
     current_metrics |-> NoMetrics,
     aggregated_metrics_pub |-> 0,
     alerts_pub |-> <<>>,
     last_collection_time |-> 0,
     analysis_report_pub |-> <<>>,
     retention_period |-> MetricsParameters.retention_period,
     aggregation_window |-> MetricsParameters.aggregation_window,
     enable_system_monitoring |-> enable_system_monitoring]

\* _metrics_callback: the statistics of the topic replace the earlier ones
_metrics_callback(m, metrics_data) == [m EXCEPT !.current_metrics = metrics_data]

\* system_metrics is None
NoSnapshot == [timestamp |-> NoTime]

SystemSnapshot(timestamp, cpu_percent, memory_percent) ==
    [timestamp |-> timestamp, cpu_percent |-> cpu_percent,
     memory_percent |-> memory_percent]

\* _aggregate_current_metrics for the statistics of one topic; it is called
\* with current_metrics not empty
_aggregate_current_metrics(m, timestamp, system_snapshot) ==
    [timestamp |-> timestamp,
     average_latency_ms |-> IF m.current_metrics.avg > 0
                            THEN m.current_metrics.avg ELSE 0,
     overall_loss_rate |-> IF m.current_metrics.loss_rate >= 0
                           THEN m.current_metrics.loss_rate ELSE 0,
     system_metrics |-> system_snapshot]

Alert(type, severity) == [type |-> type, severity |-> severity]

AlertsAtThreshold(metrics) ==
    (IF metrics.average_latency_ms >= MetricsParameters.alert_latency_threshold
     THEN <<Alert("high_latency", "warning")>> ELSE <<>>)
    \o (IF metrics.overall_loss_rate >= MetricsParameters.alert_loss_threshold
        THEN <<Alert("high_loss_rate", "error")>> ELSE <<>>)
    \o (IF metrics.system_metrics # NoSnapshot
           /\ metrics.system_metrics.cpu_percent >= 900
        THEN <<Alert("high_cpu", "warning")>> ELSE <<>>)
    \o (IF metrics.system_metrics # NoSnapshot
           /\ metrics.system_metrics.memory_percent >= 900
        THEN <<Alert("high_memory", "warning")>> ELSE <<>>)

\* the list alerts of _check_performance_alerts
Alerts(metrics) ==
    (IF metrics.average_latency_ms > MetricsParameters.alert_latency_threshold
     THEN <<Alert("high_latency", "warning")>> ELSE <<>>)
    \o (IF metrics.overall_loss_rate > MetricsParameters.alert_loss_threshold
        THEN <<Alert("high_loss_rate", "error")>> ELSE <<>>)
    \o (IF metrics.system_metrics # NoSnapshot
           /\ metrics.system_metrics.cpu_percent > 900
        THEN <<Alert("high_cpu", "warning")>> ELSE <<>>)
    \o (IF metrics.system_metrics # NoSnapshot
           /\ metrics.system_metrics.memory_percent > 900
        THEN <<Alert("high_memory", "warning")>> ELSE <<>>)

\* alerts_pub holds the alerts published by the latest _collect_metrics
_check_performance_alerts(m, metrics) == [m EXCEPT !.alerts_pub = Alerts(metrics)]

\* the entries of a history that _cleanup_old_data keeps
RECURSIVE Retained(_, _)
Retained(history, cutoff_time) ==
    IF history # <<>> /\ history[1].timestamp < cutoff_time
    THEN Retained(Tail(history), cutoff_time)
    ELSE history

_cleanup_old_data(m, current_time) ==
    [m EXCEPT
        !.aggregated_history =
            Retained(@, current_time - m.retention_period),
        !.system_history =
            Retained(@, current_time - m.retention_period)]

\* _collect_metrics once the system snapshot is in system_history and
\* current_metrics is not empty
Aggregated(m, aggregated, current_time) ==
    _cleanup_old_data(
        _check_performance_alerts(
            [m EXCEPT !.aggregated_history =
                          deque_append(@, aggregated, m.retention_period),
                      !.aggregated_metrics_pub = @ + 1],
            aggregated),
        current_time)

\* _collect_metrics once the system snapshot is in system_history
Collected(m, system_snapshot, current_time) ==
    IF m.current_metrics = NoMetrics
    THEN [m EXCEPT !.alerts_pub = <<>>, !.last_collection_time = current_time]
    ELSE [Aggregated(m, _aggregate_current_metrics(m, current_time, system_snapshot),
                     current_time)
            EXCEPT !.last_collection_time = current_time]

_collect_metrics(m, system_snapshot, current_time) ==
    IF m.enable_system_monitoring
    THEN Collected([m EXCEPT !.system_history =
                                 deque_append(@, system_snapshot, m.retention_period)],
                   system_snapshot, current_time)
    ELSE Collected(m, NoSnapshot, current_time)

\* _generate_analysis_report returns None
NoReport == [data_points |-> 0]

\* recent_data: the snapshots of the history inside the analysis window
recent_data(m, current_time) ==
    SelectSeq(m.aggregated_history,
              LAMBDA x : current_time - x.timestamp <= m.aggregation_window)

_generate_analysis_report(m, current_time) ==
    IF Len(m.aggregated_history) < 10 THEN NoReport
    ELSE IF recent_data(m, current_time) = <<>> THEN NoReport
    ELSE [timestamp |-> current_time,
          data_points |-> Len(recent_data(m, current_time))]

\* _perform_analysis with enable_trend_analysis as declared (True);
\* analysis_report_pub holds what the latest call published
_perform_analysis(m, current_time) ==
    [m EXCEPT !.analysis_report_pub =
        IF _generate_analysis_report(m, current_time) # NoReport
        THEN <<_generate_analysis_report(m, current_time)>>
        ELSE <<>>]

(* SystemMonitor.  The clock counts seconds. *)

\* history_size: a few entries instead of the default of 60
MonitorParameters == [history_size |-> 2]

SystemMonitor(history_size) ==
    [history_size |-> history_size,
     cpu_history |-> <<>>,
     memory_history |-> <<>>,
     alerts |-> <<>>]

\* the list alerts of _check_alerts, whole percent
MonitorAlerts(cpu_percent, memory_percent) ==
    (IF cpu_percent >= 95 THEN <<"cpu_critical">>
     ELSE IF cpu_percent >= 90 THEN <<"cpu_warning">> ELSE <<>>)
    \o (IF memory_percent >= 95 THEN <<"memory_critical">>
        ELSE IF memory_percent >= 85 THEN <<"memory_warning">> ELSE <<>>)

\* one round of _monitor_loop; alerts holds what the round handed to the
\* alert callbacks
_monitor_loop(mon, timestamp, cpu_percent, memory_percent) ==
    [mon EXCEPT
        !.cpu_history = deque_append(@, <<timestamp, cpu_percent>>, mon.history_size),
        !.memory_history =
            deque_append(@, <<timestamp, memory_percent>>, mon.history_size),
        !.alerts = MonitorAlerts(cpu_percent, memory_percent)]

----------------------------------------------------------------------------

----------------------------------------------------------------------------
(* MessageStressPublisher: the node that publishes the message load.  Its   *)
(* parameters are changed through the parameter services of the node;       *)
(* sets counts the parameter changes made so far.                           *)

\* MessageStressPublisher.__init__: the declared defaults; _setup_timer has
\* created the timer for the declared rate
MessageStressPublisher ==
    [publish_rate |-> 10, payload_size |-> 1024, burst_mode |-> FALSE,
     target_rate |-> 10, sets |-> 0]

\* the topics the MessageStressPublisher subscribes to: none
MessageStressPublisherSubscriptions == {}

\* the timer is made anew for the value the parameter has at the call
_setup_timer(p) ==
    IF p.publish_rate > 0 THEN [p EXCEPT !.target_rate = p.publish_rate] ELSE p

\* the on-set-parameters callback: it runs before the new value is stored
_parameter_callback(p, name, value) ==
    IF name = "publish_rate" THEN _setup_timer(p) ELSE p

\* a parameter of the node is set: the callback accepts every change, then
\* the value is stored
set_parameters(p, name, value) ==
    [_parameter_callback(p, name, value) EXCEPT ![name] = value, !.sets = @ + 1]

----------------------------------------------------------------------------
(* The load generators with their workers and threads.  A generator is used *)
(* by the thread of its owner (thread 0) and by the threads of its duration *)
(* timers (thread r for the timer armed by run r).  workers lists every     *)
(* worker spawned so far with its run; lists holds the list objects made by *)
(* start_stress_test, processes names the one self.processes refers to;     *)
(* stoppers holds the calls of stop_stress_test in progress.  The memory    *)
(* generator has one worker thread per run, worker_thread, which appends    *)
(* chunks of chunk_size_mb to allocated_chunks.                             *)

\* chunk_size_mb of _memory_allocation_task
chunk_size_mb == 10

\* the workers a CPU run spawns (num_processes)
NumProcesses == 2

Generator(kind) ==
    [kind |-> kind,
     is_running |-> FALSE,
     stop_event |-> FALSE,
     shutdown_in_progress |-> FALSE,
     processes |-> 0,
     lists |-> <<>>,
     worker_thread |-> 0,
     workers |-> <<>>,
     allocated_chunks |-> 0,
     total_allocated_mb |-> 0,
     target_mb |-> 0,
     runs |-> 0,
     timers |-> {},
     stoppers |-> {}]

Worker(run, requested_mb, target_mb) ==
    [run |-> run, state |-> "running", requested_mb |-> requested_mb,
     target_mb |-> target_mb, current_allocated |-> 0]

\* the ids of the workers spawned by a call that finds n workers
Spawned(n, count) == [i \in 1 .. count |-> n + i]

\* CPUStressTester.start_stress_test on a generator that is not running
CpuStarted(g, duration) ==
    [g EXCEPT !.stop_event = FALSE,
              !.is_running = TRUE,
              !.runs = @ + 1,
              !.lists = Append(@, Spawned(Len(g.workers), NumProcesses)),
              !.processes = Len(g.lists) + 1,
              !.workers = @ \o [i \in 1 .. NumProcesses |-> Worker(g.runs + 1, 0, 0)],
              !.timers = IF duration THEN @ \cup {g.runs + 1} ELSE @]

\* MemoryStressTester.start_stress_test on a generator that is not running
MemoryStarted(g, target_mb, duration, available_mb) ==
    [g EXCEPT !.target_mb = IF target_mb > MaxSafeMb(available_mb)
                            THEN MaxSafeMb(available_mb) ELSE target_mb,
              !.is_running = TRUE,
              !.stop_event = FALSE,
              !.allocated_chunks = 0,
              !.total_allocated_mb = 0,
              !.runs = @ + 1,
              !.workers = Append(@, Worker(g.runs + 1, target_mb,
                                    IF target_mb > MaxSafeMb(available_mb)
                                    THEN MaxSafeMb(available_mb) ELSE target_mb)),
              !.worker_thread = Len(g.workers) + 1,
              !.timers = IF duration THEN @ \cup {g.runs + 1} ELSE @]

\* start_stress_test: the generator after the call
GeneratorStarted(g, target_mb, duration, available_mb) ==
    IF g.is_running THEN g
    ELSE IF g.kind = "cpu" THEN CpuStarted(g, duration)
    ELSE MemoryStarted(g, target_mb, duration, available_mb)

\* stop_stress_test returns False at its first statement
StopRefused(g) ==
    ~g.is_running \/ (g.kind = "cpu" /\ g.shutdown_in_progress)

\* stop_stress_test up to the wait for the workers, called by thread
StopSignalled(g, thread) ==
    [g EXCEPT !.shutdown_in_progress = IF g.kind = "cpu" THEN TRUE ELSE @,
              !.stop_event = TRUE,
              !.is_running = FALSE,
              !.stoppers = @ \cup {[thread |-> thread, pc |-> "join", run |-> g.runs]}]

\* the loop over self.processes: each process still alive is waited for,
\* terminated and killed
Joined(g) ==
    [g EXCEPT !.workers =
        [w \in DOMAIN g.workers |->
            IF \E i \in DOMAIN g.lists[g.processes] : g.lists[g.processes][i] = w
            THEN [g.workers[w] EXCEPT !.state = IF @ = "running" THEN "killed" ELSE @]
            ELSE g.workers[w]]]

\* the wait for the workers: the CPU generator kills what is alive in the
\* list self.processes refers to; the memory generator returns from
\* join(timeout) with the worker thread as it is
StopWaited(g, s) ==
    [(IF g.kind = "cpu" THEN Joined(g) ELSE g)
        EXCEPT !.stoppers = (@ \ {s}) \cup {[s EXCEPT !.pc = "clear"]}]

\* the statements after the wait
StopCleared(g, s) ==
    IF g.kind = "cpu"
    THEN [g EXCEPT !.lists[g.processes] = <<>>,
                   !.shutdown_in_progress = FALSE,
                   !.stoppers = @ \ {s}]
    ELSE [g EXCEPT !.allocated_chunks = 0,
                   !.total_allocated_mb = 0,
                   !.stoppers = @ \ {s}]

\* one round of the loop of a worker: a CPU worker leaves when it finds the
\* event set; the memory worker allocates a chunk while it is below its
\* target, and leaves when it finds the event set
WorkerRound(g, w) ==
    IF g.stop_event THEN [g EXCEPT !.workers[w].state = "exited"]
    ELSE IF g.kind = "memory"
            /\ g.workers[w].current_allocated < g.workers[w].target_mb
    THEN [g EXCEPT !.allocated_chunks = @ + 1,
                   !.workers[w].current_allocated = @ + chunk_size_mb,
                   !.total_allocated_mb = g.workers[w].current_allocated + chunk_size_mb]
    ELSE g

----------------------------------------------------------------------------
(* The alerts the orchestrator keeps in node_status['alerts'], in seconds. *)

\* the age in seconds beyond which _alerts_callback drops an alert
alert_retention == 300

SelectAlerts(alerts, cutoff) == SelectSeq(alerts, LAMBDA a : a.timestamp > cutoff)

\* StressOrchestrator._alerts_callback: the alert is appended with the time
\* of arrival, and the alerts not younger than the cutoff are dropped
_alerts_callback(s, alert, current_time) ==
    [s EXCEPT !.alerts =
        SelectAlerts(Append(@, [timestamp |-> current_time, alert |-> alert]),
                     current_time - alert_retention)]

\* StressOrchestrator.get_orchestrator_status: the alerts of the status
get_orchestrator_status(s) ==
    [is_running |-> s.is_running,
     current_scenario |-> s.current_scenario,
     active_processes |-> s.active_processes,
     alerts |-> s.alerts]

----------------------------------------------------------------------------
(* The loss rates the MessageStressSubscriber reports, as fractions         *)
(* lost / total_expected.                                                   *)

Max1(n) == IF n >= 1 THEN n ELSE 1

\* the loss rate of _calculate_topic_statistics
_calculate_topic_statistics(topic_metrics) ==
    [lost |-> topic_metrics.lost_messages,
     total_expected |-> Max1(IF topic_metrics.last_sequence >= 0
                             THEN topic_metrics.last_sequence + 1
                             ELSE topic_metrics.message_count)]

\* the loss rate of _log_topic_statistics, before the factor 100.0
_log_topic_statistics(topic_metrics) ==
    [lost |-> topic_metrics.lost_messages,
     total_expected |-> Max1(IF topic_metrics.last_sequence >= 0
                             THEN topic_metrics.expected_sequence + 1
                             ELSE topic_metrics.message_count)]
(* State *)

VARIABLES
    driven,     \* the node the behaviour follows
    now,        \* the clock
    self,       \* the StressOrchestrator object
    next_tick,  \* when status_timer next fires _monitor_scenario_progress
    tick,       \* the monitor callback in progress: its position and current_time
    crashed,    \* an exception left a callback: rclpy.spin ended, main() exits
    started,    \* the names of the start requests not rejected so far
    idle,       \* time units spent with nothing running
    node,       \* the StressTestNode object
    tester,     \* the ThroughputTester object
    link,       \* the threshold of the link the ThroughputTester measures
    commands,   \* commands sent so far to the StressTestNode or ThroughputTester
    last,       \* the last operation, its argument and whether it changed the node
    collector,  \* the BaselineCollector object
    calc,       \* the arguments and the result of the last call of a pure function
    subscriber, \* the MessageStressSubscriber object
    metrics,    \* the MetricsCollector object
    monitor,    \* the SystemMonitor object
    publisher,  \* the MessageStressPublisher object
    gen         \* a load generator with its workers and threads

vars == <<driven, now, self, next_tick, tick, crashed, started, idle,
          node, tester, link, commands, last,
          collector, calc, subscriber, metrics, monitor, publisher, gen>>

\* the objects of the stress nodes and of the measuring nodes
stress_nodes == <<self, next_tick, tick, started, idle, node, tester, link>>

stress_nodes_but_tester == <<self, next_tick, tick, started, idle, node, link>>

measuring_nodes == <<collector, calc, subscriber, metrics, monitor, publisher, gen>>

NoCall == [op |-> "none"]

NoTick == [pc |-> "idle", current_time |-> NoTime]

Did(op, arg, changed) == [op |-> op, arg |-> arg, changed |-> changed]

\* StressOrchestrator.__init__
StressOrchestrator(auto_baseline) ==
    [current_scenario |-> NoScenario,
     current_phase_index |-> 0,
     scenario_start_time |-> NoTime,
     phase_start_time |-> NoTime,
     is_running |-> FALSE,
     shutdown_requested |-> FALSE,
     active_processes |-> {},
     cpu |-> CPUStressTester,
     mem |-> MemoryStressTester,
     baseline_completed |-> FALSE,
     baseline_summary |-> FALSE,
     baseline_client_available |-> auto_baseline,
     auto_baseline_before_stress |-> auto_baseline,
     pending_scenario |-> NoScenario,
     scenario_status_pub |-> <<>>,
     emitted |-> <<>>,
     orchestrator_lock |-> FALSE,
     reentered |-> FALSE,
     table_log |-> <<>>,
     alerts |-> <<>>,
     ret |-> FALSE]

\* the three nodes are separate processes with no topic in common in this
\* model: a behaviour follows one of them and leaves the others as constructed
Constructed(d) ==
    /\ driven = d
    /\ now = 0
    /\ next_tick = StatusInterval
    /\ tick = NoTick
    /\ crashed = FALSE
    /\ started = <<>>
    /\ idle = 0
    /\ tester = ThroughputTester
    /\ commands = 0
    /\ last = Did("init", "", FALSE)
    /\ calc = NoCall
    /\ subscriber = MessageStressSubscriber
    /\ publisher = MessageStressPublisher
    /\ gen = Generator("cpu")

\* the measuring nodes as constructed
MeasuringConstructed ==
    /\ collector = BaselineCollector(TRUE)
    /\ metrics = MetricsCollector(TRUE)
    /\ monitor = SystemMonitor(MonitorParameters.history_size)

Init ==
    /\ Constructed("stress_orchestrator")
    /\ MeasuringConstructed
    /\ \E auto_baseline \in BOOLEAN : self = StressOrchestrator(auto_baseline)
    /\ node = StressTestNode(0)
    /\ link = 1

InitNode ==
    /\ Constructed("stress_test_node")
    /\ MeasuringConstructed
    /\ self = StressOrchestrator(TRUE)
    /\ \E duration_seconds \in NodeDurations : node = StressTestNode(duration_seconds)
    /\ link = 1

InitTester ==
    /\ Constructed("throughput_tester")
    /\ MeasuringConstructed
    /\ self = StressOrchestrator(TRUE)
    /\ node = StressTestNode(0)
    /\ link \in Thresholds

\* a handler starts with nothing emitted and nothing returned
Fresh(s) == [s EXCEPT !.emitted = <<>>, !.table_log = <<>>, !.ret = FALSE]

FreshNode(n) == [n EXCEPT !.calls = <<>>, !.ret = FALSE]

\* a request that changed nothing leaves the program where it was: the next
\* request is explored from the state before it
Requests == {"start_scenario", "stop_scenario", "baseline_status", "control"}

Settled == ~(last.op \in Requests /\ ~last.changed)

\* the executor is single-threaded: a service or subscription callback runs
\* only between two callbacks
ExecutorFree == ~crashed /\ tick.pc = "idle"

Busy == self.is_running \/ self.cpu.timers # {} \/ self.mem.timers # {}

DueTimers(g) == {x \in g.timers : x <= now}

Min(S) == CHOOSE x \in S : \A y \in S : x <= y

\* the next instant at which something happens by itself
NextEvent == Min({next_tick} \cup self.cpu.timers \cup self.mem.timers)

\* the topics the BaselineCollector subscribes to
BaselineCollectorSubscriptions == {"aggregated_metrics"}

\* _stress_metrics_callback logs a warning when a message arrives during a
\* measurement; the object stays as it is
_stress_metrics_callback(c, msg) == c

\* the BaselineCollector after the messages published by a handler of the
\* orchestrator: a message reaches the callback of the subscription to its
\* topic, and no callback if the collector has no such subscription
RECURSIVE CollectorReceives(_, _)
CollectorReceives(c, messages) ==
    IF messages = <<>> THEN c
    ELSE CollectorReceives(
            IF Head(messages).topic \in BaselineCollectorSubscriptions
            THEN _stress_metrics_callback(c, Head(messages))
            ELSE c,
            Tail(messages))

measuring_nodes_but_collector == <<calc, subscriber, metrics, monitor>>

\* what the handler of the orchestrator published reaches the subscribers:
\* the BaselineCollector through its subscription, the MessageStressPublisher
\* not at all, as it has no subscription
Delivered ==
    /\ collector' = CollectorReceives(collector, self'.emitted)
    /\ publisher' = publisher
    /\ gen' = gen
    /\ UNCHANGED measuring_nodes_but_collector

\* the orchestrator after a request, and the record of the request
Request(op, arg, s) ==
    /\ self' = s
    /\ last' = Did(op, arg, Fresh(s) # Fresh(self))

----------------------------------------------------------------------------
(* Actions of the StressOrchestrator *)

\* a start request that start_scenario does not reject outright
Admitted(name) == ~self.is_running /\ name \in ScenarioNames

\* the names requested: once a request has been admitted, later requests name
\* the same scenario or the unknown one
RequestNames ==
    IF started = <<>> THEN ScenarioNames \cup {UnknownScenario}
    ELSE {started[1], UnknownScenario}

\* _start_scenario_service -> start_scenario
StartScenario(name) ==
    /\ driven = "stress_orchestrator"
    /\ ExecutorFree /\ Settled
    /\ name \in RequestNames
    /\ Admitted(name) =>
         Len(started) < MaxStarts /\ (started = <<>> \/ now < RestartWindow)
    /\ \E env \in Env({0}) :
         Request("start_scenario", name, start_scenario(Fresh(self), name, now, env))
    /\ started' = IF Admitted(name) THEN Append(started, name) ELSE started
    /\ Delivered
    /\ UNCHANGED <<driven, now, next_tick, tick, crashed, idle, node, tester, link,
                   commands>>

\* _stop_scenario_service -> stop_scenario
StopScenario ==
    /\ driven = "stress_orchestrator"
    /\ ExecutorFree /\ Settled
    /\ Request("stop_scenario", "", stop_scenario(Fresh(self)))
    /\ UNCHANGED <<measuring_nodes, driven, now, next_tick, tick, crashed, started, idle, node, tester,
                   link, commands>>

\* a message on baseline_status; with the policy off the callback only sets
\* baseline_completed, which start_scenario reads under the policy alone
BaselineStatus(status) ==
    /\ driven = "stress_orchestrator"
    /\ ExecutorFree /\ Settled
    /\ self.auto_baseline_before_stress
    /\ \E env \in Env({0}) :
         Request("baseline_status", status,
                 _baseline_status_callback(Fresh(self), status, now, env))
    /\ Delivered
    /\ UNCHANGED <<driven, now, next_tick, tick, crashed, started, idle, node, tester,
                   link, commands>>

\* the phase check of _monitor_scenario_progress
PhaseCheck(s, current_time, env) ==
    IF s.phase_start_time # NoTime
       /\ current_time - s.phase_start_time >= CurrentPhase(s).duration
    THEN _transition_to_next_phase(s, current_time, env)
    ELSE s

\* _monitor_scenario_progress up to and including the phase check
MonitorTick ==
    /\ driven = "stress_orchestrator"
    /\ ExecutorFree /\ now = next_tick
    /\ next_tick' = next_tick + StatusInterval
    /\ last' = Did("monitor_tick", "", TRUE)
    /\ IF ~self.is_running \/ self.shutdown_requested
       THEN /\ self' = Fresh(self)
            /\ UNCHANGED <<now, tick>>
       ELSE \E env \in Env(0 .. MaxHandlerDelay) :
              /\ self' = PhaseCheck(Fresh(self), now, env)
              /\ now' = IF self'.is_running /\ self'.phase_start_time > now
                        THEN self'.phase_start_time ELSE now
              /\ tick' = [pc |-> "total_check", current_time |-> now]
    /\ Delivered
    /\ UNCHANGED <<driven, crashed, started, idle, node, tester, link, commands>>

\* the total-duration check and the progress report
TotalCheck(s, current_time) ==
    IF s.scenario_start_time # NoTime
       /\ current_time - s.scenario_start_time >= CurrentScenario(s).total_duration
    THEN _complete_scenario(s)
    ELSE s

\* the rest of _monitor_scenario_progress
MonitorTickEnd ==
    /\ driven = "stress_orchestrator"
    /\ ~crashed /\ tick.pc = "total_check"
    /\ tick' = NoTick
    /\ last' = Did("monitor_tick_end", "", TRUE)
    /\ IF self.scenario_start_time # NoTime /\ self.current_scenario = NoScenario
       THEN \* None.total_duration: AttributeError leaves the callback
            /\ crashed' = TRUE
            /\ self' = Fresh(self)
       ELSE /\ crashed' = FALSE
            /\ self' = _publish_phase_progress(TotalCheck(Fresh(self), tick.current_time))
    /\ UNCHANGED <<measuring_nodes, driven, now, next_tick, started, idle, node, tester, link, commands>>

\* a threading.Timer armed by CPUStressTester.start_stress_test fires: it
\* calls stop_stress_test on the generator's own thread
CpuTimerFires ==
    /\ driven = "stress_orchestrator"
    /\ ~crashed
    /\ \E x \in DueTimers(self.cpu) :
         self' = [self EXCEPT
                    !.cpu = [CPUStressTester_stop_stress_test(@).g
                                EXCEPT !.timers = @ \ {x}]]
    /\ last' = Did("cpu_timer", "", self.cpu.is_running)
    /\ UNCHANGED <<measuring_nodes, driven, now, next_tick, tick, crashed, started, idle, node, tester,
                   link, commands>>

\* time passes, up to the next tick or timer; timers fire when due, so the
\* clock waits for them
AdvanceTime ==
    /\ driven = "stress_orchestrator"
    /\ ExecutorFree /\ now < next_tick
    /\ DueTimers(self.cpu) = {} /\ DueTimers(self.mem) = {}
    /\ IF Busy
       THEN /\ NextEvent <= MaxTime
            /\ now' = NextEvent
            /\ idle' = idle
       ELSE /\ idle < MaxIdle
            /\ now' = now + 1
            /\ idle' = idle + 1
    /\ Len(started) > 1 => now' <= RestartWindow
    /\ self' = Fresh(self)
    /\ last' = Did("advance_time", "", TRUE)
    /\ UNCHANGED <<measuring_nodes, driven, next_tick, tick, crashed, started, node, tester, link,
                   commands>>

\* the rates a parameter client sets
PublishRates == {100}

\* a parameter client (ros2 param set) changes the publish_rate parameter of
\* the MessageStressPublisher
SetParameters(publish_rate) ==
    /\ driven = "stress_orchestrator"
    /\ ExecutorFree /\ Settled
    /\ publisher.sets < MaxParameterSets
    /\ publisher' = set_parameters(publisher, "publish_rate", publish_rate)
    /\ self' = Fresh(self)
    /\ last' = Did("set_parameters", "publish_rate", TRUE)
    /\ UNCHANGED <<driven, now, next_tick, tick, crashed, started, idle, node, tester,
                   link, commands, collector, calc, subscriber, metrics, monitor,
                   gen>>

Next ==
    \/ \E name \in ScenarioNames \cup {UnknownScenario} : StartScenario(name)
    \/ StopScenario
    \/ \E status \in {"completed", "measuring"} : BaselineStatus(status)
    \/ MonitorTick
    \/ MonitorTickEnd
    \/ CpuTimerFires
    \/ AdvanceTime
    \/ \E publish_rate \in PublishRates : SetParameters(publish_rate)

Spec == Init /\ [][Next]_vars

----------------------------------------------------------------------------
(* Actions of the StressTestNode *)

NodeCommands == {"start", "stop", "restart", "status"}

\* a message on stress_control
NodeControl(command) ==
    /\ driven = "stress_test_node"
    /\ Settled /\ commands < MaxCommands
    /\ \E env \in NodeEnv :
         /\ node' = StressTestNode_control_callback(FreshNode(node), command, now, env)
         /\ last' = Did("control", command, FreshNode(node') # FreshNode(node))
    /\ commands' = commands + 1
    /\ UNCHANGED <<measuring_nodes, driven, now, self, next_tick, tick, crashed, started, idle, tester,
                   link>>

\* a threading.Timer armed by the node's CPU generator fires
NodeCpuTimerFires ==
    /\ driven = "stress_test_node"
    /\ \E x \in DueTimers(node.cpu_tester) :
         LET r == CPUStressTester_stop_stress_test(node.cpu_tester)
         IN node' = [node EXCEPT
                       !.cpu_tester = [r.g EXCEPT !.timers = @ \ {x}],
                       !.ret = FALSE,
                       !.calls = <<CallRecord("cpu_tester", "stop_stress_test", 0,
                                              node.cpu_tester, r)>>]
    /\ last' = Did("cpu_timer", "", node.cpu_tester.is_running)
    /\ UNCHANGED <<measuring_nodes, driven, now, self, next_tick, tick, crashed, started, idle, tester,
                   link, commands>>

\* a threading.Timer armed by the node's memory generator fires
NodeMemoryTimerFires ==
    /\ driven = "stress_test_node"
    /\ \E x \in DueTimers(node.memory_tester) :
         LET r == MemoryStressTester_stop_stress_test(node.memory_tester)
         IN node' = [node EXCEPT
                       !.memory_tester = [r.g EXCEPT !.timers = @ \ {x}],
                       !.ret = FALSE,
                       !.calls = <<CallRecord("memory_tester", "stop_stress_test", 0,
                                              node.memory_tester, r)>>]
    /\ last' = Did("memory_timer", "", node.memory_tester.is_running)
    /\ UNCHANGED <<measuring_nodes, driven, now, self, next_tick, tick, crashed, started, idle, tester,
                   link, commands>>

\* time passes; timers fire when due, so the clock waits for them
NodeAdvanceTime ==
    /\ driven = "stress_test_node"
    /\ DueTimers(node.cpu_tester) = {} /\ DueTimers(node.memory_tester) = {}
    /\ node.cpu_tester.timers \cup node.memory_tester.timers # {}
    /\ now' = now + 1
    /\ node' = FreshNode(node)
    /\ last' = Did("advance_time", "", TRUE)
    /\ UNCHANGED <<measuring_nodes, driven, self, next_tick, tick, crashed, started, idle, tester, link,
                   commands>>

NextNode ==
    \/ \E command \in NodeCommands : NodeControl(command)
    \/ NodeCpuTimerFires
    \/ NodeMemoryTimerFires
    \/ NodeAdvanceTime

SpecNode == InitNode /\ [][NextNode]_vars

\* the orchestrator and the node that drives the generators on command
InitStop == Init \/ InitNode

NextStop == Next \/ NextNode

SpecStop == InitStop /\ [][NextStop]_vars

----------------------------------------------------------------------------
(* Actions of the ThroughputTester *)

\* the commands that start a test
StartCommands ==
    DOMAIN CountingTests \cup {"start_frequency_test", "start_sustainable_rate_test"}

\* the messages sent on throughput_test_control: a command and, for the
\* frequency test, the list of frequencies
TesterCommands ==
    {[command |-> c, frequencies |-> DefaultFrequencies] :
        c \in StartCommands \cup {"stop_test", "get_results"}}
      \cup {[command |-> "start_frequency_test", frequencies |-> <<>>]}

\* a message on throughput_test_control, taken when the executor is free
TesterControl(command_data) ==
    /\ driven = "throughput_tester" /\ ~crashed
    /\ ~InCallback(tester) /\ commands < MaxCommands
    /\ tester.waiting = <<>>
    /\ tester' = ThroughputTester_control_callback(tester, command_data)
    /\ commands' = commands + 1
    /\ last' = Did("control", command_data.command, tester' # tester)
    /\ UNCHANGED <<measuring_nodes, driven, now, self, next_tick, tick, crashed, started, idle, node, link>>

\* the loop of start_sustainable_rate_test: its condition, and the start of
\* a trial or the end of the procedure
TesterSearchLoop ==
    /\ driven = "throughput_tester"
    /\ tester.pc = "while"
    /\ tester' = SearchLoop(tester)
    /\ last' = Did("search_loop", "", TRUE)
    /\ UNCHANGED <<measuring_nodes, driven, now, self, next_tick, tick, crashed, started, idle, node, link,
                   commands>>

\* one trial of the search
TesterSearchTrial ==
    /\ driven = "throughput_tester"
    /\ tester.pc = "sleep"
    /\ tester' = SearchTrial(tester, link)
    /\ last' = Did("search_trial", "", TRUE)
    /\ UNCHANGED <<measuring_nodes, driven, now, self, next_tick, tick, crashed, started, idle, node, link,
                   commands>>

\* SIGINT or SIGTERM: the handler runs on the main thread, between two
\* instructions of whatever it executes, and ends the process
TesterSignal ==
    /\ driven = "throughput_tester" /\ ~crashed
    /\ tester' = signal_handler(tester)
    /\ crashed' = TRUE
    /\ last' = Did("signal", tester.pc, TRUE)
    /\ UNCHANGED <<measuring_nodes, stress_nodes_but_tester, driven, now, commands>>

NextTester ==
    \/ \E command_data \in TesterCommands : TesterControl(command_data)
    \/ TesterSearchLoop
    \/ TesterSearchTrial
    \/ TesterSignal

SpecTester == InitTester /\ [][NextTester]_vars

----------------------------------------------------------------------------
(* The sustainable-rate search on a link of any behaviour *)

\* the counters a trial can end with: nothing sent, everything delivered,
\* half of it lost
TrialCounters(rate) ==
    {<<0, 0>>, <<5 * rate, 5 * rate>>, <<5 * rate, (5 * rate) \div 2>>}

\* the command that starts the search; the search is followed once, a second
\* one starts from the same bounds
SearchControl ==
    /\ driven = "throughput_tester" /\ ~crashed
    /\ ~InCallback(tester) /\ tester.published = <<>>
    /\ tester' = ThroughputTester_control_callback(
                    tester, [command |-> "start_sustainable_rate_test",
                             frequencies |-> DefaultFrequencies])
    /\ commands' = commands + 1
    /\ last' = Did("control", "start_sustainable_rate_test", tester' # tester)
    /\ UNCHANGED <<measuring_nodes, driven, now, self, next_tick, tick, crashed, started, idle, node, link>>

\* one trial of the search, whatever the link and the executor let through
SearchTrialAny ==
    /\ driven = "throughput_tester"
    /\ tester.pc = "sleep"
    /\ \E c \in TrialCounters(tester.test_rate) : tester' = TrialCounted(tester, c[1], c[2])
    /\ last' = Did("search_trial", "", TRUE)
    /\ UNCHANGED <<measuring_nodes, driven, now, self, next_tick, tick, crashed, started, idle, node, link,
                   commands>>

InitSearch ==
    /\ Constructed("throughput_tester")
    /\ MeasuringConstructed
    /\ self = StressOrchestrator(TRUE)
    /\ node = StressTestNode(0)
    /\ link = 1

NextSearch ==
    \/ SearchControl
    \/ TesterSearchLoop
    \/ SearchTrialAny

SpecSearch == InitSearch /\ [][NextSearch]_vars

(* BaselineCollector run by rclpy.spin: one callback at a time.  A service  *)
(* request that arrives while a callback runs waits in the queue of the     *)
(* service and is served when the executor is free again.                   *)

\* the system metrics a sample tick can collect
BaselineSamples ==
    {NoSample,
     [cpu_percent |-> 10, memory_percent |-> 50],
     [cpu_percent |-> 20, memory_percent |-> 60]}

\* the CPU and memory percentages validate_system_idle can read
IdleCpuPercent == {0, 20, 30, 31}

IdleMemoryPercent == {85, 86}

InitCollector ==
    /\ Constructed("baseline_collector")
    /\ self = StressOrchestrator(TRUE)
    /\ node = StressTestNode(0)
    /\ link = 1
    /\ metrics = MetricsCollector(TRUE)
    /\ monitor = SystemMonitor(MonitorParameters.history_size)
    /\ \E auto_validate_idle \in BOOLEAN :
           collector = BaselineCollector(auto_validate_idle)

CollectorRuns == driven = "baseline_collector" /\ ~crashed

\* the service callback of a request
Served(c, request, t) ==
    IF request = "start" THEN start_baseline_measurement(c, t)
    ELSE IF request = "validate" THEN _validate_idle_service(c, t)
    ELSE stop_baseline_measurement(c)

\* a client calls start_baseline or stop_baseline
CollectorRequest(request) ==
    /\ CollectorRuns
    /\ commands < MaxCommands
    /\ commands' = commands + 1
    /\ collector' = IF collector.pc = "spin" /\ collector.waiting = <<>>
                    THEN Served(collector, request, now)
                    ELSE [collector EXCEPT !.waiting = Append(@, request)]
    /\ last' = Did(request, collector.pc, collector.pc = "spin" /\ collector.waiting = <<>>)
    /\ UNCHANGED <<stress_nodes, driven, now, crashed, calc, subscriber, metrics, monitor, publisher, gen>>

\* the executor takes the oldest waiting request
CollectorServeWaiting ==
    /\ CollectorRuns
    /\ collector.pc = "spin"
    /\ collector.waiting # <<>>
    /\ collector' = Served([collector EXCEPT !.waiting = Tail(@)],
                           Head(collector.waiting), now)
    /\ last' = Did(Head(collector.waiting), "waited", TRUE)
    /\ UNCHANGED <<stress_nodes, driven, now, crashed, commands, calc, subscriber,
                   metrics, monitor, publisher, gen>>

\* one round of validate_system_idle: psutil.cpu_percent(interval=1.0), the
\* checks, and time.sleep(2.0) when they pass
ValidateSample(cpu_percent, memory_percent) ==
    /\ CollectorRuns
    /\ collector.pc = "validating"
    /\ now - collector.validation.start_time
           < CollectorParameters.idle_detection_duration
    /\ collector' = ValidationSample(collector, cpu_percent, memory_percent)
    /\ now' = IF collector'.pc = "validating" THEN now + 3 ELSE now + 1
    /\ last' = [op |-> "validate", arg |-> "sample", changed |-> TRUE,
                 cpu_percent |-> cpu_percent, memory_percent |-> memory_percent]
    /\ UNCHANGED <<stress_nodes, driven, crashed, commands, calc, subscriber,
                   metrics, monitor, publisher, gen>>

\* the loop of validate_system_idle is over
ValidateEnd ==
    /\ CollectorRuns
    /\ collector.pc = "validating"
    /\ now - collector.validation.start_time
           >= CollectorParameters.idle_detection_duration
    /\ collector' = ValidationEnd(collector, now)
    /\ last' = Did("validate", "end", TRUE)
    /\ UNCHANGED <<stress_nodes, driven, now, crashed, commands, calc, subscriber,
                   metrics, monitor, publisher, gen>>

\* a timer is ready: it is armed and due, or it was due when it was cancelled
\* and the executor had already found it ready
Ready(timer) == timer.due # NoTime /\ timer.due <= now

Fired(timer, period) ==
    IF timer.armed THEN [timer EXCEPT !.due = @ + period] ELSE NoTimer

\* measurement_timer calls _collect_baseline_sample
SampleTick(sample) ==
    /\ CollectorRuns
    /\ collector.pc = "spin"
    /\ Ready(collector.measurement_timer)
    /\ collector' =
           _collect_baseline_sample(
               [collector EXCEPT
                   !.measurement_timer = Fired(@, CollectorParameters.sample_interval)],
               sample, now)
    /\ last' = Did("sample", "", collector.is_measuring)
    /\ UNCHANGED <<stress_nodes, driven, now, crashed, commands, calc, subscriber,
                   metrics, monitor, publisher, gen>>

\* completion_timer calls _complete_baseline_measurement; an exception that
\* leaves the callback ends rclpy.spin
CompletionTick ==
    /\ CollectorRuns
    /\ collector.pc = "spin"
    /\ Ready(collector.completion_timer)
    /\ collector' =
           _complete_baseline_measurement(
               [collector EXCEPT
                   !.completion_timer =
                       Fired(@, CollectorParameters.measurement_duration)],
               now)
    /\ crashed' = collector'.raised
    /\ last' = Did("complete", "", collector.is_measuring)
    /\ UNCHANGED <<stress_nodes, driven, now, commands, calc, subscriber,
                   metrics, monitor, publisher, gen>>

\* a second passes with the executor waiting for the timers of a measurement
CollectorWaits ==
    /\ CollectorRuns
    /\ collector.pc = "spin"
    /\ collector.waiting = <<>>
    /\ collector.is_measuring
    /\ ~Ready(collector.measurement_timer)
    /\ ~Ready(collector.completion_timer)
    /\ now' = now + 1
    /\ last' = Did("wait", "", FALSE)
    /\ UNCHANGED <<stress_nodes, driven, crashed, commands, calc, subscriber,
                   metrics, monitor, collector, publisher, gen>>

\* Ctrl-C ends rclpy.spin (KeyboardInterrupt also leaves a validation in
\* progress and frees collector_lock); main() then calls destroy_node, which
\* calls stop_baseline_measurement if a measurement runs
CollectorDestroy ==
    /\ CollectorRuns
    /\ collector.pc \in {"spin", "validating"}
    /\ crashed' = TRUE
    /\ collector' = IF collector.is_measuring
                    THEN [collector EXCEPT !.pc = stop_baseline_measurement(collector).pc]
                    ELSE [collector EXCEPT !.pc = "destroyed"]
    /\ last' = Did("destroy", collector.pc, collector.is_measuring)
    /\ UNCHANGED <<stress_nodes, driven, now, commands, calc, subscriber,
                   metrics, monitor, publisher, gen>>

NextCollector ==
    \/ \E request \in {"start", "stop"} : CollectorRequest(request)
    \/ CollectorServeWaiting
    \/ \E cpu_percent \in IdleCpuPercent, memory_percent \in IdleMemoryPercent :
           ValidateSample(cpu_percent, memory_percent)
    \/ ValidateEnd
    \/ \E sample \in BaselineSamples : SampleTick(sample)
    \/ CompletionTick
    \/ CollectorWaits
    \/ CollectorDestroy

SpecCollector == InitCollector /\ [][NextCollector]_vars

\* a client calls validate_system_idle while the collector measures nothing
\* and serves nothing
ValidateRequest ==
    /\ ~collector.is_measuring
    /\ collector.pc = "spin" /\ collector.waiting = <<>>
    /\ CollectorRequest("validate")

\* the collector with the validate_system_idle service called as well
NextIdle ==
    \/ \E request \in {"start", "stop"} : CollectorRequest(request)
    \/ ValidateRequest
    \/ CollectorServeWaiting
    \/ \E cpu_percent \in IdleCpuPercent, memory_percent \in IdleMemoryPercent :
           ValidateSample(cpu_percent, memory_percent)
    \/ ValidateEnd
    \/ \E sample \in BaselineSamples : SampleTick(sample)
    \/ CompletionTick
    \/ CollectorWaits
    \/ CollectorDestroy

SpecIdle == InitCollector /\ [][NextIdle]_vars

----------------------------------------------------------------------------
(* The pure functions of the baseline summary, applied to arguments drawn   *)
(* from bounded sets; calc holds the arguments and the result of the call.  *)

\* the longest list of values summarised
MaxValues == 3

\* the values: whole percentages
StatValues == {0, 1, 5, 100}

RECURSIVE ValueLists(_)
ValueLists(n) ==
    IF n = 0 THEN {<<>>}
    ELSE ValueLists(n - 1)
         \cup {Append(values, x) : values \in ValueLists(n - 1), x \in StatValues}

\* stability scores in thousandths, durations in seconds and sample counts
\* around the limits of the classes
StabilityScores == {500, 599, 600, 799, 800, 899, 900, 950}

Durations == {0, 29, 30, 59, 60, 179, 180, 1000}

SampleCounts == {0, 29, 30, 89, 90, 200}

InitStatistics ==
    /\ Constructed("baseline_summary")
    /\ MeasuringConstructed
    /\ self = StressOrchestrator(TRUE)
    /\ node = StressTestNode(0)
    /\ link = 1

CalculateStatistics(values) ==
    /\ driven = "baseline_summary"
    /\ calc' = [op |-> "_calculate_statistics", values |-> values,
                result |-> _calculate_statistics(values)]
    /\ UNCHANGED <<stress_nodes, driven, now, crashed, commands, last, collector,
                   subscriber, metrics, monitor, publisher, gen>>

DetermineQuality(stability_score, duration, sample_count) ==
    /\ driven = "baseline_summary"
    /\ calc' = [op |-> "_determine_measurement_quality",
                stability_score |-> stability_score,
                duration |-> duration,
                sample_count |-> sample_count,
                result |-> _determine_measurement_quality(
                               stability_score, duration, sample_count)]
    /\ UNCHANGED <<stress_nodes, driven, now, crashed, commands, last, collector,
                   subscriber, metrics, monitor, publisher, gen>>

NextStatistics ==
    \/ \E values \in ValueLists(MaxValues) : CalculateStatistics(values)
    \/ \E stability_score \in StabilityScores, duration \in Durations,
          sample_count \in SampleCounts :
           DetermineQuality(stability_score, duration, sample_count)

SpecStatistics == InitStatistics /\ [][NextStatistics]_vars

----------------------------------------------------------------------------
(* The nodes that keep bounded series: MessageStressSubscriber,             *)
(* MetricsCollector and SystemMonitor.  A behaviour follows one of them.    *)

\* the messages received by the subscriber in a behaviour
MaxMessages == 4

\* the sequence numbers a message can carry: a Twist message carries
\* int(linear.x * 10), which can be negative
SequenceNumbers == {-3, 0, 1, 2, 4}

\* the messages that can arrive at receive_time: without a timestamp, or sent
\* one or two milliseconds earlier, with or without a sequence number
MessageInfos(receive_time) ==
    {MessageInfo(FALSE, 0, FALSE, 0)}
    \cup {MessageInfo(TRUE, receive_time - latency, FALSE, 0) : latency \in {1, 2}}
    \cup {MessageInfo(TRUE, receive_time - latency, TRUE, sequence_num) :
              latency \in {1, 2}, sequence_num \in SequenceNumbers}

InitSubscriber ==
    /\ Constructed("message_stress_subscriber")
    /\ MeasuringConstructed
    /\ self = StressOrchestrator(TRUE)
    /\ node = StressTestNode(0)
    /\ link = 1

\* a message arrives on the topic: _message_callback.  The callback takes as
\* long as the message was under way, less one millisecond
MessageArrives(info) ==
    /\ driven = "message_stress_subscriber"
    /\ commands < MaxMessages
    /\ commands' = commands + 1
    /\ now' = now + 1
    /\ subscriber' = _message_callback(subscriber, info, now',
                                       IF info.stamped
                                       THEN now' - info.timestamp_ns - 1 ELSE 0)
    /\ last' = [op |-> "message", arg |-> "", changed |-> info.stamped, info |-> info]
    /\ UNCHANGED <<stress_nodes, driven, crashed, collector, calc, metrics, monitor, publisher, gen>>

\* the statistics timer logs the statistics of the topic, and the statistics
\* are read with get_comprehensive_statistics
LogStatistics ==
    /\ driven = "message_stress_subscriber"
    /\ subscriber.metrics.message_count > 0
    /\ calc' = [op |-> "statistics",
                topic_metrics |-> subscriber.metrics,
                log |-> _log_topic_statistics(subscriber.metrics),
                stats |-> _calculate_topic_statistics(subscriber.metrics)]
    /\ last' = Did("log_statistics", "", TRUE)
    /\ UNCHANGED <<stress_nodes, driven, crashed, collector, metrics, monitor, publisher,
                   gen, subscriber, now, commands>>

NextSubscriber ==
    \/ \E info \in MessageInfos(now + 1) : MessageArrives(info)
    \/ LogStatistics

\* the statistics a subscriber can report: average latency and loss rate at
\* and just above the alert thresholds
ReportedStats ==
    {SubscriberStats(avg, loss_rate) :
         avg \in {MetricsParameters.alert_latency_threshold,
                  MetricsParameters.alert_latency_threshold + 1},
         loss_rate \in {MetricsParameters.alert_loss_threshold,
                        MetricsParameters.alert_loss_threshold + 1}}

\* CPU and memory percentages, in tenths, at and just above 90.0
ResourcePercent == {900, 901}

InitMetrics ==
    /\ Constructed("metrics_collector")
    /\ collector = BaselineCollector(TRUE)
    /\ monitor = SystemMonitor(MonitorParameters.history_size)
    /\ self = StressOrchestrator(TRUE)
    /\ node = StressTestNode(0)
    /\ link = 1
    /\ \E enable_system_monitoring \in BOOLEAN :
           metrics = MetricsCollector(enable_system_monitoring)

\* statistics arrive on a metrics topic
StatsArrive(metrics_data) ==
    /\ driven = "metrics_collector"
    /\ metrics' = _metrics_callback(metrics, metrics_data)
    /\ last' = Did("stats", "", TRUE)
    /\ UNCHANGED <<stress_nodes, driven, now, crashed, commands, collector, calc,
                   subscriber, monitor, publisher, gen>>

\* the collection timer calls _collect_metrics: one second after the last
\* call, or three seconds after it (a longer collection interval, or a late
\* call)
CollectTick(delay, cpu_percent, memory_percent) ==
    /\ driven = "metrics_collector"
    /\ commands < MaxCommands
    /\ commands' = commands + 1
    /\ now' = now + delay
    /\ metrics' = _collect_metrics(metrics,
                                   SystemSnapshot(now', cpu_percent, memory_percent),
                                   now')
    /\ last' = Did("collect", "", metrics.current_metrics # NoMetrics)
    /\ UNCHANGED <<stress_nodes, driven, crashed, collector, calc, subscriber, monitor, publisher, gen>>

NextMetrics ==
    \/ \E metrics_data \in ReportedStats : StatsArrive(metrics_data)
    \/ \E delay \in {MetricsParameters.collection_interval,
                     MetricsParameters.collection_interval
                         + MetricsParameters.retention_period},
          cpu_percent \in ResourcePercent, memory_percent \in ResourcePercent :
           CollectTick(delay, cpu_percent, memory_percent)

InitMonitor ==
    /\ Constructed("system_monitor")
    /\ MeasuringConstructed
    /\ self = StressOrchestrator(TRUE)
    /\ node = StressTestNode(0)
    /\ link = 1

\* one round of the monitoring thread
MonitorRound(cpu_percent, memory_percent) ==
    /\ driven = "system_monitor"
    /\ commands < MaxCommands
    /\ commands' = commands + 1
    /\ now' = now + 1
    /\ monitor' = _monitor_loop(monitor, now', cpu_percent, memory_percent)
    /\ last' = Did("monitor", "", TRUE)
    /\ UNCHANGED <<stress_nodes, driven, crashed, collector, calc, subscriber, metrics, publisher, gen>>

NextMonitor ==
    \E cpu_percent \in {50, 90, 95}, memory_percent \in {50, 85, 95} :
        MonitorRound(cpu_percent, memory_percent)

InitSeries == InitSubscriber \/ InitMetrics \/ InitMonitor

NextSeries == NextSubscriber \/ NextMetrics \/ NextMonitor

SpecSeries == InitSeries /\ [][NextSeries]_vars

----------------------------------------------------------------------------
(* The ThroughputTester with commands that arrive while a test procedure   *)
(* runs: they wait in the queue of the subscription until the executor is  *)
(* free again.                                                             *)

\* the commands that wait at a time
MaxWaiting == 1

\* a message on throughput_test_control arrives while the executor is inside
\* control_callback
TesterArrives(command_data) ==
    /\ driven = "throughput_tester" /\ ~crashed
    /\ InCallback(tester) /\ commands < MaxCommands
    /\ Len(tester.waiting) < MaxWaiting
    /\ tester' = [tester EXCEPT !.waiting = Append(@, command_data)]
    /\ commands' = commands + 1
    /\ last' = Did("arrive", command_data.command, FALSE)
    /\ UNCHANGED <<measuring_nodes, stress_nodes_but_tester, driven, now, crashed>>

\* the executor takes the oldest waiting message
TesterServeWaiting ==
    /\ driven = "throughput_tester" /\ ~crashed
    /\ ~InCallback(tester)
    /\ tester.waiting # <<>>
    /\ tester' = ThroughputTester_control_callback(
                     [tester EXCEPT !.waiting = Tail(@)], Head(tester.waiting))
    /\ last' = Did("control", Head(tester.waiting).command,
                   tester' # [tester EXCEPT !.waiting = Tail(@)])
    /\ UNCHANGED <<measuring_nodes, stress_nodes_but_tester, driven, now, crashed,
                   commands>>

NextResponsive ==
    \/ \E command_data \in TesterCommands : TesterControl(command_data)
    \/ \E command_data \in TesterCommands : TesterArrives(command_data)
    \/ TesterServeWaiting
    \/ TesterSearchLoop
    \/ TesterSearchTrial
    \/ TesterSignal

SpecResponsive == InitSearch /\ [][NextResponsive]_vars

----------------------------------------------------------------------------
----------------------------------------------------------------------------
(* The MetricsCollector with the declared retention period of an hour: the *)
(* collection ticks and the analysis timer.                                *)

\* snapshots collected in a behaviour
MaxSnapshots == 11

\* the seconds between two collection ticks
CollectionIntervals == {1, 10}

InitAnalysis ==
    /\ Constructed("metrics_collector")
    /\ collector = BaselineCollector(TRUE)
    /\ monitor = SystemMonitor(MonitorParameters.history_size)
    /\ self = StressOrchestrator(TRUE)
    /\ node = StressTestNode(0)
    /\ link = 1
    /\ metrics = [MetricsCollector(FALSE) EXCEPT !.retention_period = 3600]

\* the collection timer calls _collect_metrics
SnapshotTick(delay) ==
    /\ driven = "metrics_collector"
    /\ commands < MaxSnapshots
    /\ commands' = commands + 1
    /\ now' = now + delay
    /\ metrics' = _collect_metrics(metrics, NoSnapshot, now')
    /\ last' = Did("collect", "", metrics.current_metrics # NoMetrics)
    /\ UNCHANGED <<stress_nodes, driven, crashed, collector, calc, subscriber, monitor,
                   publisher, gen>>

\* the analysis timer calls _perform_analysis
PerformAnalysis ==
    /\ driven = "metrics_collector"
    /\ last.op = "collect"
    /\ metrics' = _perform_analysis(metrics, now)
    /\ last' = Did("analysis", "", metrics'.analysis_report_pub # <<>>)
    /\ UNCHANGED <<stress_nodes, driven, now, crashed, commands, collector, calc,
                   subscriber, monitor, publisher, gen>>

NextAnalysis ==
    \/ StatsArrive(SubscriberStats(100, 0))
    \/ \E delay \in CollectionIntervals : SnapshotTick(delay)
    \/ PerformAnalysis

SpecAnalysis == InitAnalysis /\ [][NextAnalysis]_vars
(* One load generator with its workers: the owner starts and stops it, the  *)
(* duration timers stop it from their own threads, and the workers run      *)
(* their loops.  A call of stop_stress_test takes three steps, so that the  *)
(* calls of other threads fall between them.                                *)

\* the runs of one generator
MaxRuns == 2

GeneratorKinds == {"cpu", "memory"}

\* targets and available memory in MiB: below, at and above the safe maximum
TargetsMb == {20, 25, 50}

AvailableMb == {25, 40}

InitGenerator ==
    /\ driven = "generator"
    /\ now = 0
    /\ next_tick = StatusInterval
    /\ tick = NoTick
    /\ crashed = FALSE
    /\ started = <<>>
    /\ idle = 0
    /\ tester = ThroughputTester
    /\ commands = 0
    /\ last = Did("init", "", FALSE)
    /\ calc = NoCall
    /\ subscriber = MessageStressSubscriber
    /\ publisher = MessageStressPublisher
    /\ MeasuringConstructed
    /\ self = StressOrchestrator(TRUE)
    /\ node = StressTestNode(0)
    /\ link = 1
    /\ \E kind \in GeneratorKinds : gen = Generator(kind)

GeneratorStep ==
    /\ driven = "generator"
    /\ UNCHANGED <<stress_nodes, driven, now, crashed, commands, collector, calc,
                   subscriber, metrics, monitor, publisher>>

\* the threads inside stop_stress_test
Stopping == {s.thread : s \in gen.stoppers}

\* the owner calls start_stress_test
GeneratorStart(target_mb, duration, available_mb) ==
    /\ GeneratorStep
    /\ 0 \notin Stopping
    /\ gen.runs < MaxRuns
    /\ gen' = GeneratorStarted(gen, target_mb, duration, available_mb)
    /\ last' = [op |-> "start_stress_test", arg |-> gen.kind,
                changed |-> ~gen.is_running,
                target_mb |-> target_mb, available_mb |-> available_mb]

\* a thread enters stop_stress_test: the owner, or a duration timer that
\* expires
GeneratorStopBegins(thread) ==
    /\ GeneratorStep
    /\ thread \notin Stopping
    /\ thread = 0 \/ thread \in gen.timers
    /\ LET g == [gen EXCEPT !.timers = @ \ {thread}]
       IN  /\ gen' = IF StopRefused(g) THEN g ELSE StopSignalled(g, thread)
           /\ last' = [op |-> "stop_begins", arg |-> gen.kind,
                       changed |-> ~StopRefused(g), thread |-> thread,
                       run |-> gen.runs]

\* the call of stop_stress_test the thread is in
Stopper(thread) == CHOOSE s \in gen.stoppers : s.thread = thread

\* the thread has waited for the workers
GeneratorStopWaits(thread) ==
    /\ GeneratorStep
    /\ thread \in Stopping
    /\ Stopper(thread).pc = "join"
    /\ gen' = StopWaited(gen, Stopper(thread))
    /\ last' = [op |-> "stop_waits", arg |-> gen.kind, changed |-> TRUE,
                thread |-> thread, run |-> Stopper(thread).run]

\* stop_stress_test returns True
GeneratorStopReturns(thread) ==
    /\ GeneratorStep
    /\ thread \in Stopping
    /\ Stopper(thread).pc = "clear"
    /\ gen' = StopCleared(gen, Stopper(thread))
    /\ last' = [op |-> "stop_stress_test", arg |-> gen.kind, changed |-> TRUE,
                thread |-> thread, run |-> Stopper(thread).run]

\* a worker goes once round its loop
WorkerRuns(w) ==
    /\ GeneratorStep
    /\ w \in DOMAIN gen.workers
    /\ gen.workers[w].state = "running"
    /\ gen' = WorkerRound(gen, w)
    /\ gen' # gen
    /\ last' = [op |-> "worker", arg |-> gen.kind, changed |-> TRUE,
                thread |-> w, run |-> gen.workers[w].run]

NextGenerator ==
    \/ \E target_mb \in TargetsMb, duration \in BOOLEAN, available_mb \in AvailableMb :
           GeneratorStart(target_mb, duration, available_mb)
    \/ \E thread \in 0 .. MaxRuns : GeneratorStopBegins(thread)
    \/ \E thread \in 0 .. MaxRuns : GeneratorStopWaits(thread)
    \/ \E thread \in 0 .. MaxRuns : GeneratorStopReturns(thread)
    \/ \E w \in 1 .. MaxRuns * NumProcesses : WorkerRuns(w)

SpecGenerator == InitGenerator /\ [][NextGenerator]_vars

----------------------------------------------------------------------------
(* The orchestrator receives performance alerts and is asked for its        *)
(* status; time is in seconds here.                                         *)

\* the seconds a behaviour lasts
MaxAlertTime == 1000

\* the longest list of alerts sent
MaxAlerts == 3

AlertDelays == {100, 200, 300}

AlertMessages == {"cpu", "latency"}

InitAlerts ==
    /\ Constructed("alerts")
    /\ MeasuringConstructed
    /\ self = StressOrchestrator(FALSE)
    /\ node = StressTestNode(0)
    /\ link = 1

AlertsStep ==
    /\ driven = "alerts"
    /\ UNCHANGED <<next_tick, tick, started, idle, node, tester, link, crashed, driven,
                   measuring_nodes>>

\* a message arrives on performance_alerts
AlertArrives(alert) ==
    /\ AlertsStep
    /\ commands < MaxAlerts
    /\ commands' = commands + 1
    /\ self' = _alerts_callback(self, alert, now)
    /\ last' = Did("_alerts_callback", alert, TRUE)
    /\ UNCHANGED now

\* the status is read by the get_orchestrator_status service or by the
\* status timer
GetOrchestratorStatus ==
    /\ AlertsStep
    /\ last' = [op |-> "get_orchestrator_status", arg |-> "", changed |-> FALSE,
                status |-> get_orchestrator_status(self), current_time |-> now]
    /\ UNCHANGED <<self, now, commands>>

AlertTimePasses(delay) ==
    /\ AlertsStep
    /\ now + delay <= MaxAlertTime
    /\ now' = now + delay
    /\ last' = Did("time", "", FALSE)
    /\ UNCHANGED <<self, commands>>

NextAlerts ==
    \/ \E alert \in AlertMessages : AlertArrives(alert)
    \/ GetOrchestratorStatus
    \/ \E delay \in AlertDelays : AlertTimePasses(delay)

SpecAlerts == InitAlerts /\ [][NextAlerts]_vars

----------------------------------------------------------------------------
----------------------------------------------------------------------------
(* Properties *)

\* the fields of the orchestrator that make up the state of the run
RunState(s) ==
    [current_scenario |-> s.current_scenario,
     current_phase_index |-> s.current_phase_index,
     scenario_start_time |-> s.scenario_start_time,
     phase_start_time |-> s.phase_start_time,
     is_running |-> s.is_running,
     active_processes |-> s.active_processes,
     cpu |-> s.cpu,
     mem |-> s.mem,
     pending_scenario |-> s.pending_scenario]

\* the number of status messages published with the given status
CountStatus(pub, status) == Cardinality({i \in DOMAIN pub : pub[i].status = status})

\* C1: a start request made while a scenario runs, or naming a scenario the
\* catalogue does not have, returns False; it leaves the state of the run
\* (current scenario, phase index, start times, running flag, generator
\* table, generators, pending name) as it was, publishes nothing and
\* triggers no baseline measurement.
C1_RejectedStartChangesNothing ==
    [][(last'.op = "start_scenario"
        /\ (self.is_running \/ last'.arg \notin ScenarioNames))
       => /\ self'.ret = FALSE
          /\ RunState(self') = RunState(self)
          /\ self'.scenario_status_pub = self.scenario_status_pub
          /\ self'.emitted = <<>>
          /\ self'.baseline_completed = self.baseline_completed
          /\ self'.baseline_summary = self.baseline_summary]_vars

\* a start request naming a catalogue scenario has been rejected because a
\* scenario runs
C1_Witness ==
    /\ last.op = "start_scenario"
    /\ last.arg \in ScenarioNames
    /\ self.is_running
    /\ self.current_phase_index = 0
    /\ ~self.ret
    /\ ~last.changed

\* C2 (as claimed): under the baseline policy a scenario whose start was
\* accepted waits for the baseline and is started when the baseline has
\* completed; no scenario is pending once the baseline has completed.
C2_NothingPendingAfterBaseline ==
    self.baseline_completed => self.pending_scenario = NoScenario

\* a start was accepted under the policy: the baseline is marked completed
\* and the scenario is pending, not running
C2_Witness ==
    /\ last.op = "start_scenario"
    /\ self.ret
    /\ self.baseline_completed
    /\ self.pending_scenario = last.arg
    /\ ~self.is_running

\* time since the start of the scenario
Elapsed(s, clock) == clock - s.scenario_start_time

ThreePhases(s) == s.is_running /\ Len(CurrentScenario(s).phases) = 3

\* the first two declared durations of the running scenario
FirstTwo(s) == CurrentScenario(s).phases[1].duration + CurrentScenario(s).phases[2].duration

\* a step inside one run of a scenario
SameRun ==
    /\ self.is_running /\ self'.is_running
    /\ self'.scenario_start_time = self.scenario_start_time
    /\ last'.op \notin {"start_scenario", "baseline_status"}

\* the phase index starts at 0 and advances by one, never back
PhasesInOrder ==
    /\ (~self.is_running /\ self'.is_running) => self'.current_phase_index = 0
    /\ SameRun => self'.current_phase_index \in
                    {self.current_phase_index, self.current_phase_index + 1}

\* the lateness a phase entry can add: the wait for the next tick and the
\* time the transition takes
EntryLateness == (StatusInterval - 1) + MaxHandlerDelay

CompletesRun ==
    /\ self.is_running /\ ~self'.is_running
    /\ \/ last'.op = "monitor_tick_end"
       \/ /\ last'.op = "monitor_tick"
          /\ self.current_phase_index = Len(CurrentScenario(self).phases) - 1

\* C4 (as claimed): with the baseline policy off an accepted start enters
\* phase 0 at once, and when the monitor has run the scenario through its
\* phases the orchestrator is idle and has published the "completed" status
\* exactly once.
C4_CompletedPublishedOnce ==
    [][/\ (last'.op = "start_scenario" /\ self'.ret
           /\ ~self.auto_baseline_before_stress)
          => (self'.is_running /\ self'.current_phase_index = 0)
       /\ (CompletesRun /\ ~self.auto_baseline_before_stress)
          => /\ self'.current_scenario = NoScenario
             /\ CountStatus(self'.scenario_status_pub, "completed")
                  = CountStatus(self.scenario_status_pub, "completed") + 1]_vars

\* the monitor has ended a scenario whose last phase has run its duration
C4_Witness ==
    /\ last.op = "monitor_tick"
    /\ ~self.auto_baseline_before_stress
    /\ ~self.is_running
    /\ self.scenario_status_pub # <<>>
    /\ self.scenario_status_pub[Len(self.scenario_status_pub)].status = "stopped"
    /\ started # <<>>
    /\ tick.current_time - self.scenario_start_time
         >= scenarios[started[Len(started)]].total_duration
    /\ tick.pc = "total_check"


\* the calls of stop_stress_test among the calls made on the generators
StopCalls(calls) ==
    {i \in DOMAIN calls : calls[i].topic = "call" /\ calls[i].method = "stop_stress_test"}

\* no stop raised; a stop on a running generator returned True, a stop on a
\* generator not running returned False and left the generator as it was
StopsIdempotent(calls) ==
    \A i \in StopCalls(calls) :
        /\ ~calls[i].raised
        /\ calls[i].was_running => calls[i].ret
        /\ ~calls[i].was_running => (~calls[i].ret /\ calls[i].unchanged)

ToldToStop(calls, generator) ==
    \E i \in StopCalls(calls) : calls[i].generator = generator

\* C6: from every running state stop_scenario tells every generator of the
\* active-generator table to stop, empties the table, sets is_running false,
\* clears the current scenario, resets the phase index to 0 and publishes
\* exactly one "stopped" status.
C6_StopCleansEverything ==
    [][(last'.op = "stop_scenario" /\ self.is_running) =>
         /\ \A generator \in self.active_processes : ToldToStop(self'.emitted, generator)
         /\ self'.active_processes = {}
         /\ ~self'.is_running
         /\ self'.current_scenario = NoScenario
         /\ self'.current_phase_index = 0
         /\ Len(self'.scenario_status_pub) = Len(self.scenario_status_pub) + 1
         /\ SubSeq(self'.scenario_status_pub, 1, Len(self.scenario_status_pub))
              = self.scenario_status_pub
         /\ self'.scenario_status_pub[Len(self'.scenario_status_pub)].status = "stopped"]_vars

\* stop_scenario has stopped a scenario in a phase after the first, whose
\* CPU generator was running
C6_Witness ==
    /\ last.op = "stop_scenario"
    /\ self.ret
    /\ ~self.is_running
    /\ self.active_processes = {}
    /\ self.phase_start_time > self.scenario_start_time
    /\ \E i \in StopCalls(self.emitted) :
         self.emitted[i].generator = "cpu_stress" /\ self.emitted[i].was_running

\* C7 (as claimed): once stop_scenario has returned and until a scenario is
\* started, every step of a progress-monitor tick, one still in flight
\* included, does nothing: no generator is started, no phase is entered,
\* nothing is published and no error is raised.
C7_TicksAfterStopDoNothing ==
    [][(/\ last'.op \in {"monitor_tick", "monitor_tick_end"}
        /\ self.shutdown_requested /\ ~self.is_running)
       => /\ ~crashed'
          /\ Fresh(self') = Fresh(self)
          /\ self'.emitted = <<>>]_vars

\* a phase start was made in the step
PhaseStartMade ==
    /\ last'.op \in {"start_scenario", "baseline_status", "monitor_tick"}
    /\ self'.phase_start_time # self.phase_start_time

\* C8 (as claimed): if a required generator fails to start on entry to a
\* phase, the scenario is aborted with cleanup: the orchestrator is not
\* running and has no current scenario, no generator is left running, the
\* active-generator table is empty and no error leaves the callback.
C8_FailedPhaseStartCleansUp ==
    [][(PhaseStartMade /\ ~self'.is_running)
       => /\ self'.current_scenario = NoScenario
          /\ ~self'.cpu.is_running
          /\ ~self'.mem.is_running
          /\ self'.active_processes = {}
          /\ ~crashed']_vars

\* the scenario whose first phase the step enters
EnteredName == IF last'.op = "start_scenario" THEN last'.arg ELSE self.pending_scenario

\* a start call made during the step raised
StartRaised(calls) ==
    \E i \in DOMAIN calls :
        calls[i].topic = "call" /\ calls[i].method = "start_stress_test" /\ calls[i].raised

\* C9 (as claimed): when a scenario's first phase is entered with the
\* generators idle and able to start, the phase start succeeds: the
\* orchestrator is running that scenario in phase 0, the CPU generator runs
\* at the phase's cpu_intensity if the scenario requires CPU stress and the
\* memory generator runs with the phase's memory_usage as target if the
\* scenario requires memory stress.
C9_RequiredGeneratorsStarted ==
    [][(/\ last'.op \in {"start_scenario", "baseline_status"}
        /\ self'.phase_start_time # self.phase_start_time
        /\ ~self.cpu.is_running /\ ~self.mem.is_running
        /\ self.active_processes = {}
        /\ ~StartRaised(self'.emitted))
       => /\ self'.is_running
          /\ self'.current_scenario = EnteredName
          /\ self'.current_phase_index = 0
          /\ scenarios[EnteredName].requires_cpu_stress =>
               /\ self'.cpu.is_running
               /\ self'.cpu.intensity
                    = Get(scenarios[EnteredName].phases[1].parameters, "cpu_intensity", 50)
          /\ scenarios[EnteredName].requires_memory_stress =>
               /\ self'.mem.is_running
               /\ self'.mem.target_mb
                    = Get(scenarios[EnteredName].phases[1].parameters, "memory_usage", 1024)]_vars

Distance(a, b) == IF a >= b THEN a - b ELSE b - a

\* C10 (as claimed): on a link with threshold T in 1 .. 20000 every rate the
\* search accepted is at or below T, every rate it rejected is above T, and
\* the max_sustainable_rate reported is the last accepted rate and differs
\* from T by at most 10.
C10_SearchFindsThreshold ==
    /\ \A rate \in tester.accepted : rate <= link
    /\ \A rate \in tester.rejected : rate > link
    /\ "sustainable_rate" \in DOMAIN tester.test_results =>
         /\ tester.pc = "spin" =>
              tester.test_results["sustainable_rate"].max_sustainable_rate
                = tester.sustainable_rate
         /\ Distance(tester.test_results["sustainable_rate"].max_sustainable_rate, link)
              <= 10

\* the width of the search interval
Width(tt) == tt.max_rate - tt.min_rate

\* the trials after which an interval of width w is at most 10 wide, each
\* leaving at most half of the width rounded up
RECURSIVE Halvings(_)
Halvings(w) == IF w <= 10 THEN 0 ELSE 1 + Halvings((w + 1) \div 2)

\* the most probes a search makes, from the bounds 1 and 20000
MaxProbes == Halvings(20000 - 1)

\* C11: the sustainable-rate search terminates whatever the trials count:
\* while it runs 1 <= min_rate < max_rate <= 20000, each probe rate lies
\* strictly between the bounds, each trial makes the interval strictly
\* narrower, no rate is probed twice and at most MaxProbes are made, and the
\* result is stored with the width at most 10.
C11_SearchTerminates ==
    [][/\ InCallback(tester') =>
            /\ 1 <= tester'.min_rate
            /\ tester'.min_rate < tester'.max_rate
            /\ tester'.max_rate <= 20000
       /\ tester'.pc = "sleep" =>
            /\ tester'.min_rate < tester'.test_rate
            /\ tester'.test_rate < tester'.max_rate
            /\ tester'.test_rate \notin tester'.accepted \cup tester'.rejected
       /\ last'.op = "search_trial" => Width(tester') < Width(tester)
       /\ Cardinality(tester'.accepted \cup tester'.rejected) <= MaxProbes
       /\ (InCallback(tester) /\ ~InCallback(tester')) =>
            /\ Width(tester') <= 10
            /\ "sustainable_rate" \in DOMAIN tester'.test_results
            /\ ~tester'.current_test_active]_vars

\* a search that accepted some rates and rejected others has ended
C11_Witness ==
    /\ tester.pc = "spin"
    /\ "sustainable_rate" \in DOMAIN tester.test_results
    /\ tester.accepted # {} /\ tester.rejected # {}
    /\ Width(tester) <= 10

\* C12: starting any test while a test is active on the instance does
\* nothing: no publisher/subscriber pair is created, no counter is reset, no
\* result is published, test_results and the active flag stay as they were.
C12_StartWhileActiveIsNoOp ==
    [][(/\ last'.op = "control" /\ last'.arg \in StartCommands
        /\ tester.current_test_active)
       => tester' = tester]_vars

\* a start command arrived while the flag was set and changed nothing
C12_Witness ==
    /\ last.op = "control" /\ last.arg = "start_sustainable_rate_test"
    /\ ~last.changed
    /\ tester.current_test_active
    /\ tester.created = <<"frequency_progression">>
(* C13: a start_baseline_measurement request that arrives while the        *)
(* collector is validating or measuring is answered at once with a failure *)
(* and a reason, is not put behind the request in progress, and leaves the *)
(* measurement in progress (samples, timers, start time) as it was.        *)

StartArrives == last'.op = "start" /\ commands' = commands + 1

C13_StartWhileBusyIsRejected ==
    [][StartArrives /\ CollectorState(collector) # "Idle"
       => /\ collector'.waiting = collector.waiting
          /\ Len(collector'.responses) = Len(collector.responses) + 1
          /\ ~collector'.responses[Len(collector'.responses)].success
          /\ collector'.responses[Len(collector'.responses)].message # ""
          /\ collector'.system_metrics_history = collector.system_metrics_history
          /\ collector'.message_metrics_history = collector.message_metrics_history
          /\ collector'.measurement_timer = collector.measurement_timer
          /\ collector'.completion_timer = collector.completion_timer
          /\ collector'.measurement_start_time = collector.measurement_start_time
          /\ collector'.is_measuring = collector.is_measuring]_vars

\* a start request waits while the idle validation of an earlier one runs
C13_Witness ==
    /\ CollectorState(collector) = "ValidatingIdle"
    /\ collector.waiting # <<>>
    /\ Head(collector.waiting) = "start"

(* C14: a baseline run goes Idle, ValidatingIdle, Measuring, Completed,     *)
(* Idle.  Samples are recorded only while Measuring; a run is completed by  *)
(* the completion timer or by an explicit stop, each of which ends it with  *)
(* exactly one summary and one "completed" status; sample ticks after the   *)
(* completion record nothing.                                               *)

StopServed == last'.op = "stop" /\ last'.changed

Completes ==
    /\ ~collector'.is_measuring
    /\ collector'.pc = "spin"
    /\ collector'.baseline_status_pub = Append(collector.baseline_status_pub, "completed")
    /\ Len(collector'.baseline_metrics_pub) = Len(collector.baseline_metrics_pub) + 1

C14_RunCompletesOnce ==
    [][/\ collector'.system_metrics_history # collector.system_metrics_history
              /\ collector'.system_metrics_history # <<>>
          => collector.is_measuring /\ last'.op = "sample"
       /\ collector.is_measuring /\ ~collector'.is_measuring
          => last'.op \in {"complete", "stop"} /\ Completes
       /\ collector'.baseline_status_pub # collector.baseline_status_pub
              /\ ~(collector.is_measuring /\ ~collector'.is_measuring)
          => /\ CollectorState(collector) \in {"Idle", "ValidatingIdle"}
             /\ CollectorState(collector') = "Measuring"
             /\ collector'.baseline_status_pub
                    = Append(collector.baseline_status_pub, "started")
       /\ collector'.baseline_metrics_pub # collector.baseline_metrics_pub
          => collector.is_measuring /\ ~collector'.is_measuring
       /\ last'.op \in {"complete", "stop"} /\ last'.changed /\ collector.is_measuring
          => Completes]_vars

\* a stop request is served while a measurement runs
C14_Witness ==
    /\ last.op = "stop"
    /\ last.changed
    /\ collector.is_measuring
    /\ collector.pc = "blocked"

(* C15: the idle validation fails, with a reason and with nothing started,  *)
(* exactly when a sample has CPU above idle_detection_threshold or memory   *)
(* above 85 (at that sample), or when after the full duration the standard  *)
(* deviation of the CPU samples is above 10; otherwise the collector starts *)
(* measuring.                                                               *)

\* the squared deviations of the CPU samples from their mean, times the
\* square of their number
RECURSIVE Deviations(_, _)
Deviations(values, all) ==
    IF values = <<>> THEN 0
    ELSE (Len(all) * values[1] - Sum(all)) * (Len(all) * values[1] - Sum(all))
         + Deviations(Tail(values), all)

\* the standard deviation (n - 1 in the denominator) is above 10
Unstable(values) ==
    /\ Len(values) > 1
    /\ Deviations(values, values) > 100 * Len(values) * Len(values) * (Len(values) - 1)

NothingStarted ==
    /\ CollectorState(collector') = "Idle"
    /\ Len(collector'.responses) = Len(collector.responses) + 1
    /\ ~collector'.responses[Len(collector'.responses)].success
    /\ collector'.responses[Len(collector'.responses)].message # ""
    /\ ~collector'.is_measuring
    /\ collector'.system_metrics_history = collector.system_metrics_history
    /\ collector'.message_metrics_history = collector.message_metrics_history
    /\ collector'.current_baseline = collector.current_baseline
    /\ collector'.measurement_timer = collector.measurement_timer
    /\ collector'.completion_timer = collector.completion_timer
    /\ collector'.baseline_status_pub = collector.baseline_status_pub

\* the CPU or the memory percentage read in this round is too high
ReadTooHigh ==
    \/ last'.cpu_percent > CollectorParameters.idle_detection_threshold
    \/ last'.memory_percent > 85

C15_ValidationFailsExactlyWhenNotIdle ==
    [][last'.op = "validate"
       => /\ CollectorState(collector) = "ValidatingIdle"
          /\ last'.arg = "sample" /\ ReadTooHigh => NothingStarted
          /\ last'.arg = "sample" /\ ~ReadTooHigh
             => /\ collector' =
                       [collector EXCEPT
                           !.validation.samples = Append(@, last'.cpu_percent)]
                /\ now' - collector.validation.start_time
                       >= Len(collector'.validation.samples)
          /\ last'.arg = "end"
             => now - collector.validation.start_time
                    >= CollectorParameters.idle_detection_duration
          /\ last'.arg = "end" /\ Unstable(collector.validation.samples)
             => NothingStarted
          /\ last'.arg = "end" /\ ~Unstable(collector.validation.samples)
             => /\ CollectorState(collector') = "Measuring"
                /\ collector'.baseline_status_pub
                       = Append(collector.baseline_status_pub, "started")
                /\ collector'.measurement_timer.armed
                /\ collector'.completion_timer.armed
                /\ collector'.responses[Len(collector'.responses)].success]_vars

\* validations failed for each of the three reasons, and one passed
C15_Witness ==
    /\ last.op = "validate"
    /\ last.arg = "end"
    /\ CollectorState(collector) = "Idle"
    /\ Len(collector.validation.samples) > 1
    /\ \E i \in DOMAIN collector.responses :
           collector.responses[i].message = "CPU usage too high"
    /\ \E i \in DOMAIN collector.responses :
           collector.responses[i].message = "Memory usage too high"

\* a validation passes with a CPU sample at the threshold and memory at 85
C15_WitnessPass ==
    /\ last.op = "validate"
    /\ last.arg = "end"
    /\ CollectorState(collector) = "Measuring"
    /\ \E i \in DOMAIN collector.validation.samples :
           collector.validation.samples[i] = CollectorParameters.idle_detection_threshold

(* C16: the quality of a baseline is 'excellent' iff stability >= 0.9,      *)
(* duration >= 3 min_duration and samples >= 3 min_samples; otherwise       *)
(* 'good' iff stability >= 0.8, duration >= min_duration and samples >=     *)
(* min_samples; otherwise 'fair' iff stability >= 0.6 and duration >= half  *)
(* of min_duration; otherwise 'poor'.  Stability 0.95 with 1000 s and 200   *)
(* samples is 'excellent'; stability 0.5 is always 'poor'.                  *)

QualityCalled == calc.op = "_determine_measurement_quality"

IsExcellent ==
    /\ calc.stability_score * 10 >= 9 * 1000
    /\ calc.duration >= 3 * min_duration
    /\ calc.sample_count >= 3 * min_samples

IsGood ==
    /\ calc.stability_score * 10 >= 8 * 1000
    /\ calc.duration >= min_duration
    /\ calc.sample_count >= min_samples

IsFair ==
    /\ calc.stability_score * 10 >= 6 * 1000
    /\ calc.duration * 2 >= min_duration

C16_QualityClasses ==
    QualityCalled
    => /\ calc.result = "excellent" <=> IsExcellent
       /\ calc.result = "good" <=> ~IsExcellent /\ IsGood
       /\ calc.result = "fair" <=> ~IsExcellent /\ ~IsGood /\ IsFair
       /\ calc.result = "poor" <=> ~IsExcellent /\ ~IsGood /\ ~IsFair
       /\ calc.stability_score = 950 /\ calc.duration = 1000 /\ calc.sample_count = 200
          => calc.result = "excellent"
       /\ calc.stability_score = 500 => calc.result = "poor"

\* a stable baseline too short to be good is fair
C16_Witness ==
    /\ QualityCalled
    /\ calc.stability_score = 950
    /\ calc.duration * 2 = min_duration
    /\ calc.result = "fair"

(* C20: the summary of a list of values that is not empty has               *)
(* min <= median <= max and min <= mean <= max, and std 0 when the values   *)
(* are all equal; the summary of the empty list is all zeros.               *)

StatisticsCalled == calc.op = "_calculate_statistics"

AllEqual(values) == \A i \in DOMAIN values : values[i] = values[1]

C20_SummaryIsOrdered ==
    StatisticsCalled
    => IF calc.values = <<>>
       THEN \A field \in {"min", "max", "mean", "variance", "median"} :
                calc.result[field].num = 0
       ELSE /\ \A i \in DOMAIN calc.values :
                   /\ FracLeq(calc.result.min, FracOf(calc.values[i]))
                   /\ FracLeq(FracOf(calc.values[i]), calc.result.max)
            /\ FracLeq(calc.result.min, calc.result.median)
            /\ FracLeq(calc.result.median, calc.result.max)
            /\ FracLeq(calc.result.min, calc.result.mean)
            /\ FracLeq(calc.result.mean, calc.result.max)
            /\ AllEqual(calc.values) => calc.result.variance.num = 0
            /\ calc.result.variance.num >= 0
            /\ calc.result.variance.num = 0 => AllEqual(calc.values)

\* a list whose values differ, not in order, with a median between two values
C20_Witness ==
    /\ StatisticsCalled
    /\ Len(calc.values) > 1
    /\ calc.values[1] > calc.values[Len(calc.values)]
    /\ calc.result.median.num # calc.result.median.den * calc.values[1]
    /\ calc.result.variance.num > 0

\* the summary of the empty list
C20_WitnessEmpty == StatisticsCalled /\ calc.values = <<>>

(* C17: for every aggregated snapshot each alert rule is evaluated on its   *)
(* own with a strict inequality: one 'high_latency' warning iff the average *)
(* latency is above the latency threshold, one 'high_loss_rate' error iff   *)
(* the loss rate is above the loss threshold, one 'high_cpu' warning iff    *)
(* CPU is above 90 %, one 'high_memory' warning iff memory is above 90 %.   *)

\* the snapshot aggregated by the step
Snapshot == metrics'.aggregated_history[Len(metrics'.aggregated_history)]

\* how many alerts of the type and severity the step published
Published(type, severity) ==
    Cardinality({i \in DOMAIN metrics'.alerts_pub :
                     metrics'.alerts_pub[i] = Alert(type, severity)})

One(condition) == IF condition THEN 1 ELSE 0

C17_AlertsAreStrictAndIndependent ==
    [][last'.op = "collect" /\ last'.changed
       => /\ metrics'.aggregated_history # <<>>
          /\ Snapshot.timestamp = now'
          /\ Snapshot.average_latency_ms = metrics.current_metrics.avg
          /\ Snapshot.overall_loss_rate = metrics.current_metrics.loss_rate
          /\ Published("high_latency", "warning")
                 = One(Snapshot.average_latency_ms
                           > MetricsParameters.alert_latency_threshold)
          /\ Published("high_loss_rate", "error")
                 = One(Snapshot.overall_loss_rate
                           > MetricsParameters.alert_loss_threshold)
          /\ Published("high_cpu", "warning")
                 = One(metrics.enable_system_monitoring
                       /\ Snapshot.system_metrics.cpu_percent > 90 * 10)
          /\ Published("high_memory", "warning")
                 = One(metrics.enable_system_monitoring
                       /\ Snapshot.system_metrics.memory_percent > 90 * 10)
          /\ Len(metrics'.alerts_pub)
                 = Published("high_latency", "warning")
                   + Published("high_loss_rate", "error")
                   + Published("high_cpu", "warning")
                   + Published("high_memory", "warning")]_vars

\* a snapshot with the latency just above its threshold and the other three
\* values at theirs fires the latency warning alone
C17_Witness ==
    /\ last.op = "collect"
    /\ last.changed
    /\ metrics.enable_system_monitoring
    /\ metrics.aggregated_history # <<>>
    /\ metrics.aggregated_history[Len(metrics.aggregated_history)].average_latency_ms
           = MetricsParameters.alert_latency_threshold + 1
    /\ metrics.aggregated_history[Len(metrics.aggregated_history)].overall_loss_rate
           = MetricsParameters.alert_loss_threshold
    /\ metrics.alerts_pub = <<Alert("high_latency", "warning")>>

\* all four alerts on one tick
C17_WitnessAll ==
    /\ last.op = "collect"
    /\ Len(metrics.alerts_pub) = 4

\* all four values at their thresholds: no alert
C17_WitnessNone ==
    /\ last.op = "collect"
    /\ last.changed
    /\ metrics.enable_system_monitoring
    /\ metrics.alerts_pub = <<>>

(* C18: a bounded series never holds more entries than its capacity; an     *)
(* append to a full series evicts the oldest entry and keeps the others in  *)
(* the order of their arrival.                                              *)

\* new is old with one entry appended, after the eviction of the oldest
\* entry if old was full
AppendedTo(old, new, capacity) ==
    /\ new # <<>>
    /\ Len(new) <= capacity
    /\ new = (IF Len(old) = capacity THEN Tail(old) ELSE old) \o <<new[Len(new)]>>

\* new is what is left of appended once _cleanup_old_data has dropped, from
\* the old end, the entries older than the retention period
CleanedOf(appended, new, cutoff_time) ==
    \E dropped \in 0..Len(appended) :
        /\ new = SubSeq(appended, dropped + 1, Len(appended))
        /\ \A i \in 1..dropped : appended[i].timestamp < cutoff_time
        /\ new # <<>> => new[1].timestamp >= cutoff_time

\* the series of the subscriber after a message with a timestamp
SubscriberSeriesAppended ==
    /\ \A series \in {"latency_data", "arrival_times", "callback_times"} :
           AppendedTo(subscriber.metrics[series], subscriber'.metrics[series],
                      SubscriberParameters.statistics_window)
    /\ subscriber'.metrics.arrival_times[Len(subscriber'.metrics.arrival_times)] = now'
    /\ IF last'.info.sequenced
       THEN /\ AppendedTo(subscriber.metrics.sequence_numbers,
                          subscriber'.metrics.sequence_numbers,
                          SubscriberParameters.statistics_window)
            /\ subscriber'.metrics.sequence_numbers[
                   Len(subscriber'.metrics.sequence_numbers)] = last'.info.sequence_num
       ELSE subscriber'.metrics.sequence_numbers = subscriber.metrics.sequence_numbers

\* a history of the collector after _collect_metrics appended entry to it
HistoryAppended(old, new, entry, cleaned) ==
    \E appended \in {(IF Len(old) = MetricsParameters.retention_period
                      THEN Tail(old) ELSE old) \o <<entry>>} :
        /\ Len(appended) <= MetricsParameters.retention_period
        /\ IF cleaned
           THEN CleanedOf(appended, new, now' - MetricsParameters.retention_period)
           ELSE new = appended

CollectorSeriesAppended ==
    /\ IF metrics.enable_system_monitoring
       THEN /\ metrics'.system_history # <<>>
            /\ HistoryAppended(metrics.system_history, metrics'.system_history,
                               metrics'.system_history[Len(metrics'.system_history)],
                               last'.changed)
            /\ metrics'.system_history[Len(metrics'.system_history)].timestamp = now'
       ELSE metrics'.system_history = metrics.system_history
    /\ IF last'.changed
       THEN /\ metrics'.aggregated_history # <<>>
            /\ HistoryAppended(metrics.aggregated_history, metrics'.aggregated_history,
                               metrics'.aggregated_history[
                                   Len(metrics'.aggregated_history)],
                               TRUE)
            /\ metrics'.aggregated_history[
                   Len(metrics'.aggregated_history)].timestamp = now'
       ELSE metrics'.aggregated_history = metrics.aggregated_history

MonitorSeriesAppended ==
    /\ AppendedTo(monitor.cpu_history, monitor'.cpu_history, monitor.history_size)
    /\ AppendedTo(monitor.memory_history, monitor'.memory_history, monitor.history_size)
    /\ monitor'.cpu_history[Len(monitor'.cpu_history)][1] = now'
    /\ monitor'.memory_history[Len(monitor'.memory_history)][1] = now'

C18_SeriesAreBoundedFifo ==
    [][/\ last'.op = "message" /\ last'.changed => SubscriberSeriesAppended
       /\ last'.op = "message" /\ ~last'.changed => subscriber' = subscriber
       /\ last'.op = "collect" => CollectorSeriesAppended
       /\ last'.op = "stats"
          => /\ metrics'.system_history = metrics.system_history
             /\ metrics'.aggregated_history = metrics.aggregated_history
       /\ last'.op = "monitor" => MonitorSeriesAppended
       /\ \A series \in {"latency_data", "arrival_times", "sequence_numbers",
                         "callback_times"} :
              Len(subscriber'.metrics[series]) <= SubscriberParameters.statistics_window
       /\ Len(metrics'.system_history) <= MetricsParameters.retention_period
       /\ Len(metrics'.aggregated_history) <= MetricsParameters.retention_period
       /\ Len(monitor'.cpu_history) <= monitor.history_size
       /\ Len(monitor'.memory_history) <= monitor.history_size]_vars

\* a message arrived with the series of the subscriber full: the oldest entry
\* of each left
C18_Witness ==
    /\ last.op = "message"
    /\ last.changed
    /\ last.info.sequenced
    /\ subscriber.metrics.message_count > SubscriberParameters.statistics_window
    /\ Len(subscriber.metrics.sequence_numbers) = SubscriberParameters.statistics_window
    /\ subscriber.metrics.arrival_times[1] > 1

\* the histories of the collector are full and their oldest entries have left
C18_WitnessCollector ==
    /\ last.op = "collect"
    /\ Len(metrics.system_history) = MetricsParameters.retention_period
    /\ Len(metrics.aggregated_history) = MetricsParameters.retention_period
    /\ metrics.aggregated_metrics_pub > MetricsParameters.retention_period

\* the histories of the monitor are full and their oldest entries have left
C18_WitnessMonitor ==
    /\ last.op = "monitor"
    /\ Len(monitor.cpu_history) = monitor.history_size
    /\ monitor.cpu_history[1][1] > 1

(* C19: sequence tracking on one stream.  The first sequence number seen    *)
(* counts nothing and becomes last_sequence.  After that a number above     *)
(* last_sequence + 1 adds the gap to the lost count and becomes             *)
(* last_sequence, a number at or below last_sequence adds 1 to the          *)
(* duplicate count and leaves last_sequence, and last_sequence + 1 just     *)
(* advances; last_sequence never decreases.                                 *)

SequenceObserved == last'.op = "message" /\ last'.changed /\ last'.info.sequenced

FirstObservation == subscriber.metrics.sequence_numbers = <<>>

LostDelta == subscriber'.metrics.lost_messages - subscriber.metrics.lost_messages

DuplicateDelta ==
    subscriber'.metrics.duplicate_messages - subscriber.metrics.duplicate_messages

C19_SequenceTracking ==
    [][/\ SequenceObserved /\ FirstObservation
          => /\ LostDelta = 0
             /\ DuplicateDelta = 0
             /\ subscriber'.metrics.last_sequence = last'.info.sequence_num
       /\ SequenceObserved /\ ~FirstObservation
              /\ last'.info.sequence_num > subscriber.metrics.last_sequence + 1
          => /\ LostDelta = last'.info.sequence_num
                                - (subscriber.metrics.last_sequence + 1)
             /\ DuplicateDelta = 0
             /\ subscriber'.metrics.last_sequence = last'.info.sequence_num
       /\ SequenceObserved /\ ~FirstObservation
              /\ last'.info.sequence_num <= subscriber.metrics.last_sequence
          => /\ LostDelta = 0
             /\ DuplicateDelta = 1
             /\ subscriber'.metrics.last_sequence = subscriber.metrics.last_sequence
       /\ SequenceObserved /\ ~FirstObservation
              /\ last'.info.sequence_num = subscriber.metrics.last_sequence + 1
          => /\ LostDelta = 0
             /\ DuplicateDelta = 0
             /\ subscriber'.metrics.last_sequence = last'.info.sequence_num
       /\ SequenceObserved
          => subscriber'.metrics.message_count = subscriber.metrics.message_count + 1
       /\ subscriber'.metrics.last_sequence >= subscriber.metrics.last_sequence
       /\ ~SequenceObserved => LostDelta = 0 /\ DuplicateDelta = 0]_vars

\* the first sequence number seen on the stream is negative
C19_Witness ==
    /\ last.op = "message"
    /\ last.changed
    /\ last.info.sequenced
    /\ last.info.sequence_num < 0
    /\ Len(subscriber.metrics.sequence_numbers) = 1
    /\ subscriber.metrics.last_sequence # last.info.sequence_num

(* C21: stop_baseline_measurement called while a measurement is in         *)
(* progress returns: it does not wait for ever for collector_lock, it      *)
(* answers with success and leaves the collector Idle with the summary of  *)
(* the run, also when the completion timer is due at the same time.        *)

\* stop_baseline_measurement is called, by the stop service or by
\* destroy_node, with a measurement in progress
StopCalled ==
    /\ last'.op \in {"stop", "destroy"}
    /\ last'.changed
    /\ collector.is_measuring

C21_StopReturns ==
    [][StopCalled
       => /\ collector'.pc # "blocked"
          /\ CollectorState(collector') = "Idle"
          /\ collector'.current_baseline # collector.current_baseline
          /\ last'.op = "stop"
             => /\ Len(collector'.responses) = Len(collector.responses) + 1
                /\ collector'.responses[Len(collector'.responses)].success]_vars

\* stop_baseline is served while the completion timer of the run is due
C21_Witness ==
    /\ last.op = "stop"
    /\ collector.pc = "blocked"
    /\ collector.completion_timer.armed
    /\ collector.completion_timer.due <= now

\* destroy_node waits for the lock as well: the process does not exit
C21_WitnessDestroy ==
    /\ last.op = "destroy"
    /\ collector.pc = "blocked"

(* C22: current_test_active is true whenever a test procedure of the       *)
(* ThroughputTester is executing: it is set before the procedure works and *)
(* is cleared only once the procedure is over or has been left; so no test *)
(* procedure starts while another one is executing.                        *)

\* the step begins a test procedure: it creates the topic pair of the test
ProcedureBegins == Len(tester'.created) > Len(tester.created)

C22_WitnessSignal ==
    /\ last.op = "signal"
    /\ last.arg = "sleep"
    /\ ~tester.current_test_active

(* C23: when a test procedure of the ThroughputTester ends, normally or    *)
(* with an error, current_test_active is false afterwards, so that a later *)
(* start is accepted.                                                      *)

\* the step ends a test procedure: one that it began itself, or one that
\* was executing
ProcedureEnds == ~InCallback(tester') /\ (ProcedureBegins \/ InCallback(tester))

C23_FlagClearedWhenProcedureEnds ==
    [][ProcedureEnds => ~tester'.current_test_active]_vars

\* a frequency test has ended with an error and a later start is refused
C23_Witness ==
    /\ last.op = "control"
    /\ last.arg \in StartCommands
    /\ ~last.changed
    /\ ~InCallback(tester)
    /\ tester.current_test_active
    /\ tester.created = <<"frequency_progression">>
    /\ DOMAIN tester.test_results = {}

(* C24: while a test procedure is in progress the tester stays responsive: *)
(* a stop_test or get_results command delivered during the test is         *)
(* processed before the procedure ends, and the timer that publishes the   *)
(* test messages fires during the trial.                                   *)

C24_ResponsiveDuringTest ==
    [][/\ last'.op = "arrive" /\ last'.arg \in {"stop_test", "get_results"}
          => tester'.waiting = tester.waiting
       /\ last'.op = "search_trial"
          => tester'.message_counters.sent = tester.test_rate * 5
       /\ tester.waiting # <<>> /\ Head(tester.waiting).command = "stop_test"
              /\ InCallback(tester) /\ ~InCallback(tester')
          => tester'.waiting # tester.waiting]_vars

\* stop_test was sent during a search and is handled after the search has
\* published its result
C24_Witness ==
    /\ last.op = "control"
    /\ last.arg = "stop_test"
    /\ tester.published # <<>>
    /\ tester.published[Len(tester.published)].test_name = "sustainable_rate"
    /\ tester.message_counters.sent = 0
    /\ commands = 2

----------------------------------------------------------------------------
(* C25: a phase with baseline_only = true and the BaselineCollector *)

BaselineOnly(s) ==
    /\ s.is_running /\ s.current_scenario # NoScenario
    /\ s.current_phase_index < Len(CurrentScenario(s).phases)
    /\ Get(CurrentPhase(s).parameters, "baseline_only", FALSE)

\* the step enters a phase whose parameter map has baseline_only = true
EntersBaselineOnlyPhase ==
    /\ BaselineOnly(self')
    /\ self'.phase_start_time # self.phase_start_time \/ ~self.is_running

\* the calls the handler made that start a load generator
GeneratorStarts(s) ==
    {i \in DOMAIN s.emitted :
        /\ s.emitted[i].topic = "call"
        /\ s.emitted[i].method = "start_stress_test"}

\* the request for a baseline run the handler published
BaselineRequests(s) ==
    {i \in DOMAIN s.emitted : s.emitted[i].topic = "orchestrator_commands"
                              /\ s.emitted[i].target = "baseline_collector"}

\* C25: entering a phase whose parameter map has baseline_only = true starts
\* no load generator and triggers a baseline run: the BaselineCollector
\* receives the request and leaves Idle to measure for the phase's duration.
C25_BaselinePhaseTriggersRun ==
    [][EntersBaselineOnlyPhase =>
         /\ GeneratorStarts(self') = {}
         /\ self'.active_processes = {}
         /\ collector' # collector
         /\ CollectorState(collector') # "Idle"]_vars

\* the part of C25 about the load generators
C25_StartsNoGenerator ==
    [][EntersBaselineOnlyPhase =>
         /\ GeneratorStarts(self') = {}
         /\ self'.active_processes = {}
         /\ BaselineRequests(self') # {}]_vars

\* the pure_baseline scenario has started and published its request, and the
\* BaselineCollector is as constructed
C25_Witness ==
    /\ last.op \in {"start_scenario", "baseline_status"} /\ last.changed
    /\ BaselineOnly(self)
    /\ self.current_scenario = "pure_baseline"
    /\ BaselineRequests(self) # {}
    /\ \E i \in BaselineRequests(self) :
         self.emitted[i].duration = CurrentPhase(self).duration
    /\ CollectorState(collector) = "Idle"
    /\ collector = BaselineCollector(TRUE)

----------------------------------------------------------------------------
(* C26: the phase transition *)

\* the monitor tick finds the current phase over
PhaseOver ==
    /\ last'.op = "monitor_tick"
    /\ self.is_running /\ ~self.shutdown_requested
    /\ self.phase_start_time # NoTime
    /\ now - self.phase_start_time >= CurrentPhase(self).duration

LastPhase(s) == s.current_phase_index + 1 >= Len(CurrentScenario(s).phases)

\* the calls of the given method the handler made on the load generators
GeneratorCalls(s, method) ==
    {i \in DOMAIN s.emitted :
        s.emitted[i].topic = "call" /\ s.emitted[i].method = method}

\* the generator was running in the ending phase, and the handler stopped it
\* before its first start of a generator
StoppedFirst(generator, g) ==
    generator \in self.active_processes /\ g.is_running =>
      \E i \in GeneratorCalls(self', "stop_stress_test") :
         /\ self'.emitted[i].generator = generator
         /\ self'.emitted[i].ret
         /\ \A j \in GeneratorCalls(self', "start_stress_test") : i < j

\* the generators of the ending phase are stopped before any start, and no
\* start finds its generator running
StoppedBeforeStarted ==
    /\ StoppedFirst("cpu_stress", self.cpu)
    /\ StoppedFirst("memory_stress", self.mem)
    /\ \A j \in GeneratorCalls(self', "start_stress_test") :
         ~self'.emitted[j].was_running
    /\ CurrentScenario(self).requires_cpu_stress =>
         GeneratorCalls(self', "start_stress_test") # {}

\* the phase the transition enters
NextPhase == CurrentScenario(self).phases[self.current_phase_index + 2]

\* the commands the handler published for the MessageStressPublisher
PublisherCommands(s) ==
    {i \in DOMAIN s.emitted :
        /\ s.emitted[i].topic = "orchestrator_commands"
        /\ s.emitted[i].target = "message_stress_publisher"}

\* the publisher gets no command but update_parameters, and publishes at the
\* rate and size of the phase
Reconfigured(s, p) ==
    /\ PublisherCommands(s) # {}
    /\ \A i \in PublisherCommands(s) : s.emitted[i].action = "update_parameters"
    /\ p.publish_rate = Get(NextPhase.parameters, "message_rate", 10)
    /\ p.target_rate = Get(NextPhase.parameters, "message_rate", 10)
    /\ p.payload_size = Get(NextPhase.parameters, "payload_size", 1024)

\* the orchestrator's part of the transition: the order of stops and starts,
\* the command published for the publisher, the completion
C26_OrchestratorTransition ==
    [][PhaseOver =>
         IF LastPhase(self) THEN ~self'.is_running /\ self'.active_processes = {}
         ELSE /\ StoppedBeforeStarted
              /\ CurrentScenario(self).requires_message_stress =>
                   /\ PublisherCommands(self') # {}
                   /\ \A i \in PublisherCommands(self') :
                        /\ self'.emitted[i].action = "update_parameters"
                        /\ self'.emitted[i].publish_rate
                             = Get(NextPhase.parameters, "message_rate", 10)
                        /\ self'.emitted[i].payload_size
                             = Get(NextPhase.parameters, "payload_size", 1024)]_vars

\* C26: on a phase transition the CPU and memory generators of the ending
\* phase are stopped before any generator of the next phase is started, so
\* the next phase's start never fails because a generator is still running
\* and no worker of the ending phase survives into the next phase; the
\* message-stress publisher is not stopped or restarted but reconfigured with
\* the next phase's parameters; when no phase remains the scenario completes
\* instead.
C26_PhaseTransition ==
    [][PhaseOver =>
         IF LastPhase(self) THEN ~self'.is_running /\ self'.active_processes = {}
         ELSE /\ StoppedBeforeStarted
              /\ CurrentScenario(self).requires_message_stress =>
                   Reconfigured(self', publisher')]_vars

\* the high_throughput scenario has entered its second phase, the command for
\* 1000 Hz is published on a topic the publisher does not subscribe to, and
\* the publisher still publishes at its declared rate
C26_Witness ==
    /\ last.op = "monitor_tick"
    /\ self.is_running /\ self.current_scenario = "high_throughput"
    /\ self.current_phase_index = 1
    /\ \E i \in PublisherCommands(self) :
         /\ self.emitted[i].publish_rate = 1000
         /\ self.emitted[i].topic \notin MessageStressPublisherSubscriptions
    /\ publisher = MessageStressPublisher

\* the cpu_stress scenario has entered its second phase: the generator of
\* the first phase was stopped, then started for the second
C26_WitnessCpu ==
    /\ last.op = "monitor_tick"
    /\ self.is_running /\ self.current_scenario = "cpu_stress"
    /\ self.current_phase_index = 1
    /\ \E i \in GeneratorCalls(self, "stop_stress_test") : self.emitted[i].ret
    /\ \E j \in GeneratorCalls(self, "start_stress_test") : self.emitted[j].ret
----------------------------------------------------------------------------
(* C27, C28: the collection tick of the MetricsCollector *)

\* the step is one call of _collect_metrics
CollectionTick == last'.op = "collect" /\ commands' = commands + 1

LastOf(series) == series[Len(series)]

\* the tick produced one snapshot, stamped with the time of the tick, and
\* appended it to the aggregated history
OneSnapshot ==
    /\ metrics'.aggregated_metrics_pub = metrics.aggregated_metrics_pub + 1
    /\ metrics'.aggregated_history # <<>>
    /\ LastOf(metrics'.aggregated_history).timestamp = now'

\* the system readings of the tick above 90% are among the alerts of the tick
SystemAlertsRaised ==
    metrics.enable_system_monitoring =>
      /\ LastOf(metrics'.system_history).cpu_percent > 900 =>
           \E i \in DOMAIN metrics'.alerts_pub : metrics'.alerts_pub[i].type = "high_cpu"
      /\ LastOf(metrics'.system_history).memory_percent > 900 =>
           \E i \in DOMAIN metrics'.alerts_pub :
              metrics'.alerts_pub[i].type = "high_memory"

\* C27: every MetricsCollector collection tick produces exactly one
\* AggregatedSnapshot, appends it to the aggregated history and evaluates the
\* alert rules on it, including ticks on which no stream has reported any
\* metrics yet (so a system CPU or memory reading above 90% raises its alert
\* on such a tick too).
C27_EveryTickAggregates ==
    [][CollectionTick =>
         /\ OneSnapshot
         /\ metrics'.alerts_pub = Alerts(LastOf(metrics'.aggregated_history))
         /\ SystemAlertsRaised]_vars

\* the ticks on which a stream has reported: one snapshot, alerts evaluated
C27_TickWithMetricsAggregates ==
    [][CollectionTick /\ metrics.current_metrics # NoMetrics =>
         /\ OneSnapshot
         /\ metrics'.alerts_pub = Alerts(LastOf(metrics'.aggregated_history))
         /\ SystemAlertsRaised]_vars

\* a tick before any stream has reported read CPU and memory above 90%:
\* no snapshot was produced or published and no alert raised
C27_Witness ==
    /\ driven = "metrics_collector"
    /\ last = Did("collect", "", FALSE)
    /\ metrics.current_metrics = NoMetrics
    /\ metrics.enable_system_monitoring
    /\ LastOf(metrics.system_history).timestamp = now
    /\ LastOf(metrics.system_history).cpu_percent > 900
    /\ LastOf(metrics.system_history).memory_percent > 900
    /\ metrics.aggregated_history = <<>>
    /\ metrics.aggregated_metrics_pub = 0
    /\ metrics.alerts_pub = <<>>

\* no entry of the history is older than the retention period
WithinRetention(history, t) ==
    \A i \in DOMAIN history :
        history[i].timestamp >= t - MetricsParameters.retention_period

\* C28: after every collection tick, neither the aggregated-snapshot history
\* nor the system-snapshot history contains an entry whose timestamp is older
\* than now - retention_period, for every collection interval and on ticks
\* with and without stream metrics.
C28_HistoriesPruned ==
    [][CollectionTick =>
         /\ WithinRetention(metrics'.aggregated_history, now')
         /\ WithinRetention(metrics'.system_history, now')]_vars

\* the ticks on which a stream has reported leave both histories pruned
C28_PrunedWhenAggregated ==
    [][CollectionTick /\ metrics.current_metrics # NoMetrics =>
         /\ WithinRetention(metrics'.aggregated_history, now')
         /\ WithinRetention(metrics'.system_history, now')]_vars

\* after a tick without stream metrics the system history holds a snapshot
\* older than the retention period
C28_Witness ==
    /\ driven = "metrics_collector"
    /\ last = Did("collect", "", FALSE)
    /\ metrics.system_history # <<>>
    /\ metrics.system_history[1].timestamp < now - MetricsParameters.retention_period
    /\ LastOf(metrics.system_history).timestamp = now
----------------------------------------------------------------------------
(* C29: the analysis report *)

\* the snapshots of the history inside the analysis window at time t
InWindow(t) ==
    {i \in DOMAIN metrics.aggregated_history :
        t - metrics.aggregated_history[i].timestamp <= metrics.aggregation_window}

\* C29: an analysis report is generated and published only when at least 10
\* aggregated snapshots lie inside the rolling analysis window; with fewer
\* than 10 snapshots in the window no report is produced, however many older
\* snapshots the history holds.
C29_ReportNeedsTenInWindow ==
    [][last'.op = "analysis" =>
         (metrics'.analysis_report_pub # <<>> <=> Cardinality(InWindow(now')) >= 10)]_vars

\* a report is published only for a history of ten snapshots or more
C29_ReportNeedsTenInHistory ==
    [][last'.op = "analysis" =>
         (metrics'.analysis_report_pub # <<>> =>
             Len(metrics.aggregated_history) >= 10 /\ InWindow(now') # {})]_vars

\* a report was published on fewer than 10 snapshots in the window, the
\* history holding 10 or more
C29_Witness ==
    /\ last = Did("analysis", "", TRUE)
    /\ Len(metrics.aggregated_history) >= 10
    /\ Cardinality(InWindow(now)) < 10
    /\ metrics.analysis_report_pub # <<>>
    /\ metrics.analysis_report_pub[1].data_points = Cardinality(InWindow(now))
----------------------------------------------------------------------------
(* C30: the active-generator table and orchestrator_lock *)

\* the changes of the table the last handler made without the lock
UnlockedMutations ==
    {i \in DOMAIN self.table_log : ~self.table_log[i].locked}

\* C30: every mutation of the orchestrator's active-generator table (adding a
\* generator at phase start, clearing at cleanup) is performed while
\* orchestrator_lock is held, on every path that reaches it: start request,
\* monitor-tick phase transition, baseline-completion callback and stop.
C30_TableMutatedUnderLock == UnlockedMutations = {}

\* the paths other than the baseline-completion callback change the table
\* under the lock
C30_LockedOutsideBaselineCallback ==
    last.op # "baseline_status" => UnlockedMutations = {}

\* no handler takes the lock while it holds it, and none returns holding it
C30_LockNotReentered == ~self.reentered /\ ~self.orchestrator_lock

\* the baseline-completion callback started the pending cpu_stress scenario
\* and added its generator to the table without the lock
C30_Witness ==
    /\ last.op = "baseline_status" /\ last.arg = "completed" /\ last.changed
    /\ self.is_running /\ self.current_scenario = "cpu_stress"
    /\ "cpu_stress" \in self.active_processes
    /\ \E i \in UnlockedMutations :
         self.table_log[i].op = "insert" /\ self.table_log[i].key = "cpu_stress"

\* a start request added a generator and a stop cleared the table, both
\* under the lock
C30_WitnessLocked ==
    /\ last.op = "stop_scenario" /\ last.changed
    /\ \E i \in DOMAIN self.table_log :
         self.table_log[i].op = "clear" /\ self.table_log[i].locked

\* the workers of a run that are still running
RunningWorkers(g, run) ==
    {w \in DOMAIN g.workers : g.workers[w].run = run /\ g.workers[w].state = "running"}

\* C31: when stop_stress_test returns True, no worker of the run it stopped
\* is still running: each has been signalled, waited for and, if still
\* alive, forcibly terminated, also when the stop overlaps a duration timer
\* or a following start.
C31_StopLeavesNoWorker ==
    [][\A thread \in 0 .. MaxRuns :
          GeneratorStopReturns(thread)
            => RunningWorkers(gen', Stopper(thread).run) = {}]_vars

\* C31: a stop of a run with live workers has returned True
C31_Witness ==
    /\ last.op = "stop_stress_test"
    /\ last.changed
    /\ \E w \in DOMAIN gen.workers : gen.workers[w].run = last.run

\* C31: the same for the CPU generator alone, whose stop kills what is left
\* alive in the list of processes
C31_CpuStopLeavesNoWorker ==
    [][\A thread \in 0 .. MaxRuns :
          gen.kind = "cpu" /\ GeneratorStopReturns(thread)
            => RunningWorkers(gen', Stopper(thread).run) = {}]_vars

\* the workers of the run are all in the list self.processes refers to
Tracked(g, run) ==
    \A w \in DOMAIN g.workers :
        g.workers[w].run = run =>
          \E i \in DOMAIN g.lists[g.processes] : g.lists[g.processes][i] = w

\* C31: a stop of the CPU generator that finds the workers of its run in the
\* list of processes, with no start between its first and its last
\* statement, leaves no worker of its run running
C31_CpuStopAloneLeavesNoWorker ==
    [][\A thread \in 0 .. MaxRuns :
          /\ gen.kind = "cpu"
          /\ GeneratorStopReturns(thread)
          /\ gen.runs = Stopper(thread).run
          /\ Tracked(gen, Stopper(thread).run)
          => RunningWorkers(gen', Stopper(thread).run) = {}]_vars

\* C31: a stop of a CPU run has returned True after the next run was started
C31_WitnessOverlap ==
    /\ last.op = "stop_stress_test"
    /\ gen.kind = "cpu"
    /\ gen.runs > last.run

\* the workers of the memory runs whose target was above the safe maximum
ClampedWorkers ==
    {w \in DOMAIN gen.workers :
        gen.kind = "memory" /\ gen.workers[w].requested_mb > gen.workers[w].target_mb}

\* C32: a start of the memory generator with a target above the safe maximum
\* returns True with the effective target clamped to the safe maximum, and
\* the amount allocated by the run never exceeds the effective target.
C32_ClampedAndNeverAbove ==
    /\ (last.op = "start_stress_test" /\ last.arg = "memory"
          /\ last.target_mb > MaxSafeMb(last.available_mb) /\ last.changed)
         => gen.target_mb = MaxSafeMb(last.available_mb)
    /\ \A w \in ClampedWorkers :
          gen.workers[w].current_allocated <= gen.workers[w].target_mb

\* C32: the worker of a run with a clamped target has allocated up to the
\* target
C32_Witness ==
    \E w \in ClampedWorkers :
        gen.workers[w].current_allocated >= gen.workers[w].target_mb

\* C32: a start above the safe maximum of a generator that is not running
\* starts the run, returns True and clamps the effective target
C32_StartsClamped ==
    (last.op = "start_stress_test" /\ last.arg = "memory"
       /\ last.target_mb > MaxSafeMb(last.available_mb))
      => /\ last.changed => gen.is_running /\ gen.target_mb = MaxSafeMb(last.available_mb)
         /\ gen.runs > 0

\* C32: the amount allocated by a run stays below its effective target plus
\* one chunk
C32_AboveByLessThanAChunk ==
    \A w \in DOMAIN gen.workers :
        gen.workers[w].current_allocated < gen.workers[w].target_mb + chunk_size_mb

\* C32: a run with a clamped target holds more than the target
C32_WitnessAbove ==
    \E w \in ClampedWorkers :
        gen.workers[w].current_allocated > gen.workers[w].target_mb

\* the alerts of the status that are older than alert_retention
OldAlerts(status, current_time) ==
    {i \in DOMAIN status.alerts :
        status.alerts[i].timestamp < current_time - alert_retention}

\* C33: at every read of the status no alert older than 5 minutes is
\* reported, whether or not a newer alert has arrived since.
C33_NoOldAlertReported ==
    last.op = "get_orchestrator_status"
      => OldAlerts(last.status, last.current_time) = {}

\* C33: a status with an alert was read
C33_Witness ==
    /\ last.op = "get_orchestrator_status"
    /\ last.status.alerts # <<>>
    /\ last.current_time > alert_retention

\* C33: right after an alert has arrived the orchestrator holds no alert
\* older than 5 minutes
C33_PrunedOnArrival ==
    last.op = "_alerts_callback"
      => \A i \in DOMAIN self.alerts : self.alerts[i].timestamp > now - alert_retention

\* the step leaves the current phase: another phase is current after it, or
\* the scenario is not running any more
PhaseLeft ==
    /\ self.is_running
    /\ \/ ~self'.is_running
       \/ self'.current_phase_index # self.current_phase_index

\* the time the current phase has been current at the time read by the tick
PhaseElapsed(current_time) == current_time - self.phase_start_time

\* C34: neither the phase check nor the total-duration check of a monitor
\* tick ends a phase, or the scenario, before the current phase has been
\* current for its declared duration.
C34_PhaseKeepsItsDuration ==
    [][/\ (last'.op = "monitor_tick" /\ PhaseLeft)
            => PhaseElapsed(now) >= CurrentPhase(self).duration
       /\ (last'.op = "monitor_tick_end" /\ PhaseLeft)
            => PhaseElapsed(tick.current_time) >= CurrentPhase(self).duration]_vars

\* C34: the total-duration check has ended a scenario
C34_Witness ==
    /\ last.op = "monitor_tick_end"
    /\ ~self.is_running
    /\ self.shutdown_requested
    /\ ~crashed
    /\ self.scenario_status_pub # <<>>

\* C34: the phase check alone keeps every phase for its declared duration
C34_PhaseCheckKeepsDuration ==
    [][(last'.op = "monitor_tick" /\ PhaseLeft)
         => PhaseElapsed(now) >= CurrentPhase(self).duration]_vars

\* the fraction lies in [0, 1]
InUnitInterval(rate) == 0 <= rate.lost /\ rate.lost <= rate.total_expected

\* C35: the loss rate reported for a stream, by get_comprehensive_statistics
\* and by the periodic statistics log, is lost_messages / (last_sequence + 1)
\* and lies in [0, 1] after any sequence of observations.
C35_LossRateInUnitInterval ==
    calc.op = "statistics" =>
      /\ InUnitInterval(calc.stats)
      /\ InUnitInterval(calc.log)
      /\ calc.topic_metrics.last_sequence >= 0 =>
           /\ calc.stats.total_expected = calc.topic_metrics.last_sequence + 1
           /\ calc.log.total_expected = calc.topic_metrics.last_sequence + 1

\* C35: the statistics of a stream with lost messages were reported
C35_Witness ==
    /\ calc.op = "statistics"
    /\ calc.stats.lost > 0

\* C35: the loss rate of get_comprehensive_statistics is
\* lost_messages / (last_sequence + 1) and lies in [0, 1]
C35_StatisticsLossRateInUnitInterval ==
    calc.op = "statistics" =>
      /\ InUnitInterval(calc.stats)
      /\ calc.topic_metrics.last_sequence >= 0 =>
           calc.stats.total_expected = calc.topic_metrics.last_sequence + 1

\* C35: the statistics log has reported a loss rate above 100 %
C35_WitnessAbove ==
    /\ calc.op = "statistics"
    /\ calc.log.lost > calc.log.total_expected

\* C36: every progress-monitor tick terminates without raising an error,
\* the tick on which the last phase's duration elapses and the tick on which
\* a next phase fails to start included: after it the orchestrator is idle
\* and the orchestrating process keeps running.
C36_TickRaisesNothing ==
    [][last'.op \in {"monitor_tick", "monitor_tick_end"} => ~crashed']_vars

\* C36: the phase check of a tick has ended the scenario
C36_Witness ==
    /\ last.op = "monitor_tick"
    /\ tick.pc = "total_check"
    /\ ~self.is_running
    /\ self.current_scenario = NoScenario
    /\ self.scenario_start_time # NoTime

\* C36: a tick whose phase check leaves the scenario running raises nothing
C36_TickOfRunningScenarioRaisesNothing ==
    [][(last'.op = "monitor_tick_end" /\ self.current_scenario # NoScenario)
         => ~crashed']_vars

\* C36: after the tick that ends the scenario the orchestrator is idle
C36_IdleAfterLastTick ==
    [][(last'.op = "monitor_tick_end" /\ crashed')
         => ~self'.is_running /\ self'.active_processes = {}
            /\ ~self'.cpu.is_running /\ ~self'.mem.is_running]_vars

\* the duration timer armed by the given run expires and stops a run
TimerStops(run) ==
    /\ run > 0
    /\ run \in gen.timers
    /\ GeneratorStopBegins(run)
    /\ ~StopRefused(gen)

\* C37: a duration timer armed by one start_stress_test(duration) stops only
\* the run it was armed for: after that run was stopped and a new run
\* started on the same generator, its expiry does not stop the new run.
C37_TimerStopsItsOwnRun ==
    [][\A run \in 1 .. MaxRuns : TimerStops(run) => gen.runs = run]_vars

\* C37: the timer of a run has expired after the run was stopped and the
\* next run started
C37_Witness ==
    /\ last.op = "stop_begins"
    /\ last.changed
    /\ last.thread > 0
    /\ last.thread < last.run

\* C37: the timer of a run that is still the current one stops that run
C37_TimerOfCurrentRunStopsIt ==
    [][\A run \in 1 .. MaxRuns :
          (TimerStops(run) /\ gen.runs = run)
            => ~gen'.is_running /\ gen'.stop_event /\ run \notin gen'.timers]_vars

\* C37: no timer is disarmed by a stop of the owner
C37_StopKeepsTimers ==
    [][GeneratorStopBegins(0) => gen'.timers = gen.timers]_vars

\* the scenario that is running, its phase and its times
RunningScenario(s) ==
    <<s.is_running, s.current_scenario, s.current_phase_index,
      s.scenario_start_time, s.phase_start_time>>

\* C38: a scenario start caused by a baseline-completion notification never
\* replaces or disturbs a scenario that is already running: the pending
\* scenario is started only if the orchestrator is idle.
C38_BaselineCompletionKeepsRunningScenario ==
    [][(last'.op = "baseline_status" /\ self.is_running)
         => /\ RunningScenario(self') = RunningScenario(self)
            /\ self'.cpu = self.cpu
            /\ self'.mem = self.mem]_vars

\* C38: a baseline completion has arrived while a scenario was running and
\* another one was pending
C38_Witness ==
    /\ last.op = "baseline_status"
    /\ last.arg = "completed"
    /\ self.is_running
    /\ Len(started) >= 2
    /\ self.pending_scenario = NoScenario

\* C38: a baseline completion that finds nothing pending changes nothing of
\* a running scenario
C38_NothingPendingNothingStarted ==
    [][(last'.op = "baseline_status" /\ self.pending_scenario = NoScenario)
         => /\ RunningScenario(self') = RunningScenario(self)
            /\ self'.cpu = self.cpu
            /\ self'.mem = self.mem]_vars

\* the step is the one in which a measurement run ends with a summary
SummaryMade == collector'.current_baseline # collector.current_baseline

\* C39: a BaselineSummary has system_idle_confirmed = true only if idle
\* validation was performed and succeeded for that same measurement run; a
\* validation that succeeded for an earlier run or for an earlier standalone
\* request does not mark a later, unvalidated measurement.
C39_IdleConfirmedForSameRun ==
    [][(SummaryMade /\ collector'.current_baseline.system_idle_confirmed)
         => collector.run_validated]_vars

\* C39: a run started without validation has ended with a summary
C39_Witness ==
    /\ collector.current_baseline # NoBaseline
    /\ collector.idle_validated
    /\ ~collector.auto_validate_idle
    /\ ~collector.run_validated
    /\ ~collector.is_measuring

\* C39: with auto_validate_idle set every run is validated, and the summary
\* is marked only when the run was validated
C39_IdleConfirmedWhenAutoValidated ==
    [][(SummaryMade /\ collector.auto_validate_idle)
         => /\ collector.run_validated
            /\ collector'.current_baseline.system_idle_confirmed]_vars

\* C39: a run that was validated is marked idle-confirmed
C39_ValidatedRunConfirmed ==
    [][(SummaryMade /\ collector.run_validated)
         => collector'.current_baseline.system_idle_confirmed]_vars

\* the loss rate a trial reports, as a fraction: (sent - received) / sent if
\* sent > 0, and the constant of the test (0 or 1) otherwise
LossRate(sent, received, otherwise) ==
    IF sent > 0 THEN [num |-> sent - received, den |-> sent]
    ELSE [num |-> otherwise, den |-> 1]

LossRateInUnitInterval(rate) == 0 <= rate.num /\ rate.num <= rate.den

\* the counts of the results stored by the tests that count
CountedResults ==
    {tester.test_results[n] :
        n \in {m \in DOMAIN tester.test_results :
                  \E c \in DOMAIN CountingTests : CountingTests[c] = m}}

====
